---- MODULE Spec2Model ----
\* Session state machine of the PRISM front end: the conversation document kept
\* by App (currentConversation), the stream-event handlers of handleSendMessage
\* and proceedToCouncil that fold progress events into it, the clarification
\* and model-evaluation flows of ChatInterface, and the request/response calls
\* whose answers replace or edit the document.
\*
\* Encoding of JavaScript values:
\*   - an optional payload is a natural number, 0 standing for null/undefined
\*     (every test the code makes on these fields is a truthiness test);
\*   - a missing boolean field is FALSE (undefined is falsy);
\*   - the null document is the record NoConv (id = 0);
\*   - a message without a `loading` record has hasLoading = FALSE.
EXTENDS Naturals, Integers, Sequences, FiniteSets, TLC

VARIABLES
    \* ---- state of the pure-reducer specification (SpecReducer) ----
    rorig,     \* the document the first event was applied to
    rdoc,      \* the document the handlers are applied to
    rprev,     \* the document before the last application
    rev,       \* the last event applied
    rh,        \* the handler that applied it: "send" | "confirm" | "none"
    rn         \* number of events applied so far

rvars == <<rorig, rdoc, rprev, rev, rh, rn>>

VARIABLES
    \* ---- state of the stream-reader specification (SpecTransport) ----
    chunks,    \* the response body, as the chunks reader.read() will return
    nread,     \* number of chunks read so far
    delivered, \* the events handed to onEvent so far, in order
    reading    \* TRUE until reader.read() has returned done

tvars == <<chunks, nread, delivered, reading>>

VARIABLES
    \* ---- state of the collaborator-call specification (SpecCollab) ----
    conversations,   \* ids of the sessions in the conversation list
    selectedContext, \* 0 = null
    selectedRole,    \* 0 = null
    call             \* the create / update / delete call in flight

lvars == <<conversations, selectedContext, selectedRole, call>>

VARIABLES
    \* ---- state of the object-identity specification (SpecSnapshots) ----
    objects,   \* the message objects allocated so far, by object number
    hmessages, \* the messages array of the displayed document: object numbers
    published  \* the documents handed to the presentation layer so far

hvars == <<objects, hmessages, published>>

VARIABLES
    \* ---- App ----
    currentConversationId,   \* 0 = null
    currentConversation,     \* the displayed document, NoConv = null
    isLoading,
    settings,                \* settings?.clarification_first_enabled
    \* ---- ChatInterface ----
    showClarificationUI,
    clarificationLoading,
    dynamicPicking,          \* TRUE = an override with a mode is configured
    modelSelection,          \* result of the model picker, NoSelection = null
    showModelEvaluation,
    \* ---- operations in flight ----
    send,      \* the handleSendMessage call and its stream
    council,   \* handleConfirmBriefing / model evaluation / proceedToCouncil
    answer,    \* the handleSubmitClarificationAnswer call
    loads,     \* responses of getConversation calls not yet delivered
    crashed,   \* a state updater raised: React unmounted the application
    \* ---- collaborator ----
    select,    \* the handleSelectContextForConversation / ...Role... call
    \* ---- ReasoningControls ----
    editorOpen, \* the editor is open on the models list (editorKind 'models')
    server,    \* the document the collaborator holds for each session
    nops       \* number of messages, answers and selections of the user so far

appvars == <<currentConversationId, currentConversation, isLoading, settings>>

chatvars ==
    <<showClarificationUI, clarificationLoading, dynamicPicking, modelSelection,
      showModelEvaluation>>

opvars == <<send, council, answer, loads, crashed>>

srvvars == <<server, nops>>

cvars == <<appvars, chatvars, opvars, select, editorOpen, srvvars>>

vars == <<rvars, tvars, lvars, hvars, cvars>>

----------------------------------------------------------------------------
\* Bounds of the model.

\* number of distinct payloads (stage data, metadata, questions, titles)
MaxPayload == 2

Payloads == 1..MaxPayload

\* number of operations of the user that grow the state: messages sent,
\* answers submitted and conversations selected
MaxOps == 2

\* the last step of a stream (number of events delivered) at which the
\* collaborator reports an error or the confirm-briefing transport fails
MaxFailStep == 1

\* the sessions the collaborator holds
Sessions == {1, 2}

----------------------------------------------------------------------------
\* Documents.

Last(s) == s[Len(s)]

Front(s) == SubSeq(s, 1, Len(s) - 1)

NoLoading == [stage1 |-> FALSE, stage2 |-> FALSE, stage3 |-> FALSE]

UserMessage(c) ==
    [role |-> "user", content |-> c, stage1 |-> 0, stage2 |-> 0, stage3 |-> 0,
     metadata |-> 0, hasLoading |-> FALSE, loading |-> NoLoading]

\* a placeholder whose stage1 flag is already raised
AssistantPlaceholderLoading ==
    [role |-> "assistant", content |-> 0, stage1 |-> 0, stage2 |-> 0, stage3 |-> 0,
     metadata |-> 0, hasLoading |-> TRUE,
     loading |-> [stage1 |-> TRUE, stage2 |-> FALSE, stage3 |-> FALSE]]

\* the placeholder handleSendMessage appends
AssistantPlaceholder ==
    [role |-> "assistant", content |-> 0, stage1 |-> 0, stage2 |-> 0, stage3 |-> 0,
     metadata |-> 0, hasLoading |-> TRUE, loading |-> NoLoading]

\* the placeholder proceedToCouncil appends: stage1 is loading from the start
CouncilPlaceholder ==
    [AssistantPlaceholder EXCEPT !.loading.stage1 = TRUE]

\* an assistant message as the collaborator returns it: no `loading` record
LoadedAssistant(p) ==
    [role |-> "assistant", content |-> 0, stage1 |-> p, stage2 |-> p,
     stage3 |-> p, metadata |-> 0, hasLoading |-> FALSE, loading |-> NoLoading]

\* no model selection (null)
NoSelection == [present |-> FALSE, models |-> {}, mode |-> 0, rationales |-> {}]

\* the selections the model picker answers with: models, the mode used, and
\* rationales keyed by some of the models
PickerResults ==
    {[present |-> TRUE, models |-> {1, 2}, mode |-> 1, rationales |-> {1}]}

NoCS ==
    [present |-> FALSE, active |-> FALSE, history |-> <<>>,
     current_question |-> 0, briefing |-> 0, confirmed |-> FALSE]

NoConv ==
    [id |-> 0, title |-> 0, messages |-> <<>>, clarification_state |-> NoCS,
     model_selection |-> NoSelection, context_snapshot |-> 0, role_snapshot |-> 0]

\* [...prev.messages] with the last element replaced by m
SetLast(d, m) ==
    [d EXCEPT !.messages = [d.messages EXCEPT ![Len(d.messages)] = m]]

----------------------------------------------------------------------------
\* Stream events: [type, data, metadata]; a field an event does not carry is
\* 0. The data of title_complete is the title, 0 when the event has none.

Ev(t, d, m) == [type |-> t, data |-> d, metadata |-> m]

StageStartTypes == {"stage1_start", "stage2_start", "stage3_start"}

StageCompleteTypes == {"stage1_complete", "stage2_complete", "stage3_complete"}

StageTypes == StageStartTypes \cup StageCompleteTypes

\* The updater of a stage event dereferences prev.messages, the last message
\* and (directly or after the stage assignment) its `loading` record: it raises
\* a TypeError when the document is null, has no message, or its last message
\* carries no `loading` record (a user message, or a message as loaded from the
\* collaborator).
StageThrows(prev) ==
    \/ prev.id = 0
    \/ Len(prev.messages) = 0
    \/ ~Last(prev.messages).hasLoading

\* Faulty variants of the stage updaters, used to test that the properties
\* below depend on what the updaters do.
\*   KeepFirst: a stageN_complete is ignored when the field is already present
ApplyStageKeepFirst(prev, ev) ==
    LET lastMsg == Last(prev.messages) IN
    CASE ev.type = "stage1_start" ->
            SetLast(prev, [lastMsg EXCEPT !.loading.stage1 = TRUE])
      [] ev.type = "stage1_complete" ->
            IF lastMsg.stage1 # 0 THEN prev
            ELSE SetLast(prev, [lastMsg EXCEPT !.stage1 = ev.data,
                                               !.loading.stage1 = FALSE])
      [] ev.type = "stage2_start" ->
            SetLast(prev, [lastMsg EXCEPT !.loading.stage2 = TRUE])
      [] ev.type = "stage2_complete" ->
            IF lastMsg.stage2 # 0 THEN prev
            ELSE SetLast(prev, [lastMsg EXCEPT !.stage2 = ev.data,
                                               !.metadata = ev.metadata,
                                               !.loading.stage2 = FALSE])
      [] ev.type = "stage3_start" ->
            SetLast(prev, [lastMsg EXCEPT !.loading.stage3 = TRUE])
      [] ev.type = "stage3_complete" ->
            IF lastMsg.stage3 # 0 THEN prev
            ELSE SetLast(prev, [lastMsg EXCEPT !.stage3 = ev.data,
                                               !.loading.stage3 = FALSE])
      [] OTHER -> prev

\*   StartToggles: a stageN_start flips the flag instead of raising it
ApplyStageStartToggles(prev, ev) ==
    LET lastMsg == Last(prev.messages) IN
    CASE ev.type = "stage1_start" ->
            SetLast(prev, [lastMsg EXCEPT !.loading.stage1 = ~@])
      [] ev.type = "stage1_complete" ->
            SetLast(prev, [lastMsg EXCEPT !.stage1 = ev.data,
                                          !.loading.stage1 = FALSE])
      [] ev.type = "stage2_start" ->
            SetLast(prev, [lastMsg EXCEPT !.loading.stage2 = ~@])
      [] ev.type = "stage2_complete" ->
            SetLast(prev, [lastMsg EXCEPT !.stage2 = ev.data,
                                          !.metadata = ev.metadata,
                                          !.loading.stage2 = FALSE])
      [] ev.type = "stage3_start" ->
            SetLast(prev, [lastMsg EXCEPT !.loading.stage3 = ~@])
      [] ev.type = "stage3_complete" ->
            SetLast(prev, [lastMsg EXCEPT !.stage3 = ev.data,
                                          !.loading.stage3 = FALSE])
      [] OTHER -> prev

\*   Accumulate: a stageN_complete adds its payload to what the field holds
ApplyStageAccumulate(prev, ev) ==
    LET lastMsg == Last(prev.messages) IN
    CASE ev.type = "stage1_start" ->
            SetLast(prev, [lastMsg EXCEPT !.loading.stage1 = TRUE])
      [] ev.type = "stage1_complete" ->
            SetLast(prev, [lastMsg EXCEPT !.stage1 = @ + ev.data,
                                          !.loading.stage1 = FALSE])
      [] ev.type = "stage2_start" ->
            SetLast(prev, [lastMsg EXCEPT !.loading.stage2 = TRUE])
      [] ev.type = "stage2_complete" ->
            SetLast(prev, [lastMsg EXCEPT !.stage2 = @ + ev.data,
                                          !.metadata = ev.metadata,
                                          !.loading.stage2 = FALSE])
      [] ev.type = "stage3_start" ->
            SetLast(prev, [lastMsg EXCEPT !.loading.stage3 = TRUE])
      [] ev.type = "stage3_complete" ->
            SetLast(prev, [lastMsg EXCEPT !.stage3 = @ + ev.data,
                                          !.loading.stage3 = FALSE])
      [] OTHER -> prev

\*   StaleMetadata: stage2_complete stores the data and forgets the metadata
\*   and the loading flag
ApplyStageStaleMetadata(prev, ev) ==
    LET lastMsg == Last(prev.messages) IN
    CASE ev.type = "stage1_start" ->
            SetLast(prev, [lastMsg EXCEPT !.loading.stage1 = TRUE])
      [] ev.type = "stage1_complete" ->
            SetLast(prev, [lastMsg EXCEPT !.stage1 = ev.data,
                                          !.loading.stage1 = FALSE])
      [] ev.type = "stage2_start" ->
            SetLast(prev, [lastMsg EXCEPT !.loading.stage2 = TRUE])
      [] ev.type = "stage2_complete" ->
            SetLast(prev, [lastMsg EXCEPT !.stage2 = ev.data])
      [] ev.type = "stage3_start" ->
            SetLast(prev, [lastMsg EXCEPT !.loading.stage3 = TRUE])
      [] ev.type = "stage3_complete" ->
            SetLast(prev, [lastMsg EXCEPT !.stage3 = ev.data,
                                          !.loading.stage3 = FALSE])
      [] OTHER -> prev

\* the updaters of the stageN_start / stageN_complete cases (the same text in
\* handleSendMessage and in proceedToCouncil)
ApplyStage(prev, ev) ==
    LET lastMsg == Last(prev.messages) IN
    CASE ev.type = "stage1_start" ->
            SetLast(prev, [lastMsg EXCEPT !.loading.stage1 = TRUE])
      [] ev.type = "stage1_complete" ->
            SetLast(prev, [lastMsg EXCEPT !.stage1 = ev.data,
                                          !.loading.stage1 = FALSE])
      [] ev.type = "stage2_start" ->
            SetLast(prev, [lastMsg EXCEPT !.loading.stage2 = TRUE])
      [] ev.type = "stage2_complete" ->
            SetLast(prev, [lastMsg EXCEPT !.stage2 = ev.data,
                                          !.metadata = ev.metadata,
                                          !.loading.stage2 = FALSE])
      [] ev.type = "stage3_start" ->
            SetLast(prev, [lastMsg EXCEPT !.loading.stage3 = TRUE])
      [] ev.type = "stage3_complete" ->
            SetLast(prev, [lastMsg EXCEPT !.stage3 = ev.data,
                                          !.loading.stage3 = FALSE])
      [] OTHER -> prev

\* Faulty variant: the last message is removed whenever it is an assistant
\* message, whether or not its stage1 is set
ApplyClarificationQuestionPopAny(prev, ev) ==
    LET messages ==
            IF /\ Len(prev.messages) > 0
               /\ Last(prev.messages).role = "assistant"
            THEN Front(prev.messages)
            ELSE prev.messages
    IN [prev EXCEPT
            !.messages = messages,
            !.clarification_state =
                [present |-> TRUE, active |-> TRUE, history |-> <<>>,
                 current_question |-> ev.data, briefing |-> 0,
                 confirmed |-> FALSE]]

\* Faulty variant: the question is stored and the state is not made active
ApplyClarificationQuestionInactive(prev, ev) ==
    LET messages ==
            IF /\ Len(prev.messages) > 0
               /\ Last(prev.messages).role = "assistant"
               /\ Last(prev.messages).stage1 = 0
            THEN Front(prev.messages)
            ELSE prev.messages
    IN [prev EXCEPT
            !.messages = messages,
            !.clarification_state =
                [present |-> TRUE, active |-> FALSE, history |-> <<>>,
                 current_question |-> ev.data, briefing |-> 0,
                 confirmed |-> FALSE]]

\* Faulty variant: the question is merged into the clarification state the
\* document holds, whose history is kept
ApplyClarificationQuestionKeepHistory(prev, ev) ==
    LET messages ==
            IF /\ Len(prev.messages) > 0
               /\ Last(prev.messages).role = "assistant"
               /\ Last(prev.messages).stage1 = 0
            THEN Front(prev.messages)
            ELSE prev.messages
    IN [prev EXCEPT
            !.messages = messages,
            !.clarification_state =
                [@ EXCEPT !.present = TRUE, !.active = TRUE,
                          !.current_question = ev.data]]

\* the updater of the clarification_question case of handleSendMessage
ApplyClarificationQuestion(prev, ev) ==
    LET messages ==
            IF /\ Len(prev.messages) > 0
               /\ Last(prev.messages).role = "assistant"
               /\ Last(prev.messages).stage1 = 0
            THEN Front(prev.messages)
            ELSE prev.messages
    IN [prev EXCEPT
            !.messages = messages,
            !.clarification_state =
                [present |-> TRUE, active |-> TRUE, history |-> <<>>,
                 current_question |-> ev.data, briefing |-> 0,
                 confirmed |-> FALSE]]

\* the updater of the title_complete case of handleSendMessage (event with a
\* title; without one the handler only refreshes the conversation list)
ApplyTitle(prev, ev) ==
    IF prev.id # 0 /\ ev.data # 0 THEN [prev EXCEPT !.title = ev.data] ELSE prev

\* does the document update of the event raise in the send-message handler?
SendThrows(prev, ev) ==
    \/ ev.type \in StageTypes /\ StageThrows(prev)
    \/ ev.type = "clarification_question" /\ prev.id = 0

\* the document after handleSendMessage's onEvent callback has handled ev
ApplySend(prev, ev) ==
    CASE ev.type \in StageTypes -> ApplyStage(prev, ev)
      [] ev.type = "title_complete" -> ApplyTitle(prev, ev)
      [] ev.type = "clarification_question" -> ApplyClarificationQuestion(prev, ev)
      [] OTHER -> prev   \* clarification_auto_start, complete, error, unknown

\* does the document update of the event raise in the confirm-briefing handler?
ConfirmThrows(prev, ev) == ev.type \in StageTypes /\ StageThrows(prev)

\* the document after proceedToCouncil's onEvent callback has handled ev: its
\* switch has the six stage cases, complete and error, and no default
ApplyConfirm(prev, ev) ==
    CASE ev.type \in StageTypes -> ApplyStage(prev, ev)
      [] OTHER -> prev

----------------------------------------------------------------------------
\* State updaters of the controller (the functions handed to
\* setCurrentConversation / onUpdateConversationState).

\* optimistic title of the first message: the first six words of the content
DraftTitle(content) == 10 + content

OptimisticTitle(prev, content) == [prev EXCEPT !.title = DraftTitle(content)]

\* Faulty variant: appending a message starts the exchange afresh and drops
\* the clarification state
AppendMessageReset(prev, m) ==
    [prev EXCEPT !.messages = Append(@, m), !.clarification_state = NoCS]

AppendMessage(prev, m) == [prev EXCEPT !.messages = Append(@, m)]

\* Faulty variant: prev.messages.slice(0, -1)
RollbackOne(prev) ==
    [prev EXCEPT !.messages = IF Len(@) >= 1 THEN Front(@) ELSE <<>>]

\* prev.messages.slice(0, -2)
Rollback(prev) ==
    [prev EXCEPT !.messages =
        IF Len(@) >= 2 THEN SubSeq(@, 1, Len(@) - 2) ELSE <<>>]

\* Faulty variant: the briefing is closed and the confirmation is not recorded
ConfirmedStateInactiveOnly(prev) ==
    [prev EXCEPT !.clarification_state =
        [@ EXCEPT !.present = TRUE, !.active = FALSE]]

\* handleConfirmBriefing: mark the briefing as confirmed locally
ConfirmedState(prev) ==
    [prev EXCEPT !.clarification_state =
        [@ EXCEPT !.present = TRUE, !.active = FALSE, !.confirmed = TRUE]]

\* handleSubmitClarificationAnswer, result.type === 'briefing'
AnswerBriefing(prev, a, result) ==
    [prev EXCEPT !.clarification_state =
        [@ EXCEPT !.present = TRUE, !.active = FALSE,
                  !.history = Append(@, a), !.briefing = result]]

\* an update for another question that does not record the answer
AnswerQuestionDropAnswer(prev, a, result) ==
    [prev EXCEPT !.clarification_state =
        [@ EXCEPT !.present = TRUE, !.active = TRUE,
                  !.current_question = result]]

\* handleSubmitClarificationAnswer, another question
AnswerQuestion(prev, a, result) ==
    [prev EXCEPT !.clarification_state =
        [@ EXCEPT !.present = TRUE, !.active = TRUE,
                  !.history = Append(@, a), !.current_question = result]]


\* a store that keeps the rationales and loses the models
StoreModelSelectionNoModels(prev, sel) ==
    [prev EXCEPT !.model_selection =
        [present |-> TRUE, models |-> {}, mode |-> sel.mode,
         rationales |-> sel.rationales]]

\* handleProceedFromModelEvaluation: store the selection on the document
StoreModelSelection(prev, sel) ==
    [prev EXCEPT !.model_selection =
        [present |-> TRUE, models |-> sel.models, mode |-> sel.mode,
         rationales |-> sel.rationales]]

\* a cancel that clears the clarification state and keeps the messages
CancelStateKeepMessages(prev) ==
    [prev EXCEPT !.clarification_state = NoCS]

\* handleCancelModelEvaluation: clear the conversation state to start fresh
CancelState(prev) ==
    [prev EXCEPT !.messages = <<>>, !.clarification_state = NoCS]

\* the effect of ChatInterface that loads the clarification state of the
\* conversation: is the clarification UI to be shown?
ClarificationEffect(conversation) ==
    LET cs == conversation.clarification_state IN
    IF conversation.id # 0 /\ cs.present
    THEN \/ cs.active /\ cs.current_question # 0
         \/ ~cs.confirmed /\ ~cs.active /\ cs.briefing # 0
    ELSE FALSE

\* what the clarification UI shows: the pending question or the briefing
ClarificationKind(conversation) ==
    LET cs == conversation.clarification_state IN
    IF cs.active /\ cs.current_question # 0 THEN "question" ELSE "briefing"

\* the effect of ChatInterface that resets dynamic picking when the id of the
\* conversation changes and the new conversation has no message
PickingEffect(old, new, picking) ==
    IF new.id # old.id /\ Len(new.messages) = 0 THEN FALSE ELSE picking

\* is the model evaluation stage with its proceed / cancel buttons rendered?
EvaluationVisible ==
    /\ showModelEvaluation
    /\ modelSelection # NoSelection
    /\ ~showClarificationUI
    /\ currentConversation.id # 0
    /\ Len(currentConversation.messages) > 0
    /\ currentConversation.messages[1].role = "user"

----------------------------------------------------------------------------
\* The streams of the collaborator. The payloads of a stream are
\* 10 * p + 1 .. 10 * p + 5, where p is the content of the message for a
\* send-message stream and CouncilPayload for a confirm-briefing stream.

CouncilPayload == 9

StageData(p, n) == 10 * p + n

CouncilScript(p) ==
    << Ev("stage1_start", 0, 0),
       Ev("stage1_complete", StageData(p, 1), 0),
       Ev("stage2_start", 0, 0),
       Ev("stage2_complete", StageData(p, 2), StageData(p, 4)),
       Ev("stage3_start", 0, 0),
       Ev("stage3_complete", StageData(p, 3), 0),
       Ev("complete", 0, 0) >>

ClarifyScript(p) ==
    << Ev("clarification_auto_start", 0, 0),
       Ev("clarification_question", StageData(p, 5), 0),
       Ev("complete", 0, 0) >>

Script(mode, p) == IF mode = "council" THEN CouncilScript(p) ELSE ClarifyScript(p)

\* the assistant message the collaborator stores when a council stream is over
StoredAssistant(p) ==
    [role |-> "assistant", content |-> 0, stage1 |-> StageData(p, 1),
     stage2 |-> StageData(p, 2), stage3 |-> StageData(p, 3),
     metadata |-> StageData(p, 4), hasLoading |-> FALSE, loading |-> NoLoading]

\* the collaborator's document after an event of a stream of session sid
ServerAfter(srv, sid, mode, p, ev) ==
    CASE ev.type = "clarification_question" ->
            [srv EXCEPT ![sid].clarification_state =
                [present |-> TRUE, active |-> TRUE, history |-> <<>>,
                 current_question |-> ev.data, briefing |-> 0,
                 confirmed |-> FALSE]]
      [] ev.type = "complete" /\ mode = "council" ->
            [srv EXCEPT ![sid].messages = Append(@, StoredAssistant(p))]
      [] OTHER -> srv

IdleOp ==
    [st |-> "idle", sid |-> 0, mode |-> "none", p |-> 0, k |-> 0, content |-> 0,
     pre |-> <<>>, appended |-> 0, intact |-> FALSE]

Busy(op) == op.st \in {"req", "open"}

\* another operation changed or replaced the messages the stream works on
Disturbed(op) ==
    IF op.st = "idle" THEN op ELSE [op EXCEPT !.intact = FALSE, !.pre = <<>>]

----------------------------------------------------------------------------
\* Actions of the controller.

\* ReasoningControls keeps its editor state while it is mounted: it is a child
\* of the message form, which is rendered only while the clarification UI is
\* not shown
EditorKept ==
    editorOpen' = (editorOpen /\ ~showClarificationUI' /\ ~crashed')

\* A state updater raised while React rendered: without an error boundary the
\* whole application is unmounted and its state is gone.
Crash ==
    /\ crashed' = TRUE
    /\ currentConversationId' = 0
    /\ currentConversation' = NoConv
    /\ isLoading' = FALSE
    /\ showClarificationUI' = FALSE
    /\ clarificationLoading' = FALSE
    /\ dynamicPicking' = FALSE
    /\ modelSelection' = NoSelection
    /\ showModelEvaluation' = FALSE
    /\ send' = IdleOp
    /\ council' = IdleOp
    /\ answer' = [st |-> "idle", sid |-> 0, a |-> 0]
    /\ loads' = {}
    /\ UNCHANGED <<settings, srvvars>>

\* handleSendMessage up to the request: optimistic title, user message,
\* placeholder unless this is the first message and clarification is enabled
SendMessage ==
    /\ ~crashed
    /\ currentConversationId # 0
    /\ currentConversation.id # 0
    /\ ~isLoading
    /\ ~showClarificationUI
    /\ ~Busy(send)
    /\ nops < MaxOps
    /\ LET content == nops + 1
           isFirstMessage == Len(currentConversation.messages) = 0
           d1 == IF isFirstMessage
                 THEN OptimisticTitle(currentConversation, content)
                 ELSE currentConversation
           d2 == AppendMessage(d1, UserMessage(content))
           d3 == IF ~isFirstMessage \/ ~settings
                 THEN AppendMessage(d2, AssistantPlaceholder)
                 ELSE d2
       IN /\ currentConversation' = d3
          /\ showClarificationUI' = ClarificationEffect(d3)
          /\ send' = [st |-> "req", sid |-> currentConversationId, mode |-> "none",
                      p |-> 0, k |-> 0, content |-> content,
                      pre |-> currentConversation.messages,
                      appended |-> Len(d3.messages) - Len(currentConversation.messages),
                      intact |-> TRUE]
    /\ isLoading' = TRUE
    /\ council' = Disturbed(council)
    /\ nops' = nops + 1
    /\ UNCHANGED <<currentConversationId, settings, clarificationLoading,
                   dynamicPicking, modelSelection, showModelEvaluation, answer,
                   loads, crashed, server>>
    /\ UNCHANGED rvars
    /\ UNCHANGED select
    /\ UNCHANGED tvars
    /\ EditorKept
    /\ UNCHANGED lvars
    /\ UNCHANGED hvars

\* the collaborator accepts the message and opens the stream
SendAccept ==
    /\ ~crashed
    /\ send.st = "req"
    /\ \E mode \in {"council", "clarify"} :
          send' = [send EXCEPT !.st = "open", !.mode = mode, !.p = send.content]
    /\ server' = [server EXCEPT ![send.sid].messages =
                        Append(@, UserMessage(send.content))]
    /\ UNCHANGED <<appvars, chatvars, council, answer, loads, crashed,
                   nops>>
    /\ UNCHANGED rvars
    /\ UNCHANGED select
    /\ UNCHANGED tvars
    /\ EditorKept
    /\ UNCHANGED lvars
    /\ UNCHANGED hvars

\* the next event of the send-message stream reaches the onEvent callback
SendEvent ==
    /\ ~crashed
    /\ send.st = "open"
    /\ LET script == Script(send.mode, send.p)
           ev == script[send.k + 1]
       IN IF SendThrows(currentConversation, ev)
          THEN Crash
          ELSE /\ currentConversation' = ApplySend(currentConversation, ev)
               /\ showClarificationUI' =
                     IF ev.type \in StageTypes \cup {"clarification_question"}
                     THEN ClarificationEffect(ApplySend(currentConversation, ev))
                     ELSE showClarificationUI
               /\ isLoading' =
                     IF ev.type \in {"clarification_question", "complete"}
                     THEN FALSE ELSE isLoading
               /\ send' = IF send.k + 1 = Len(script)
                          THEN IdleOp ELSE [send EXCEPT !.k = @ + 1]
               /\ council' = IF ev.type \in StageTypes \cup {"clarification_question"}
                             THEN Disturbed(council) ELSE council
               /\ server' = ServerAfter(server, send.sid, send.mode, send.p, ev)
               /\ UNCHANGED <<currentConversationId, settings, clarificationLoading,
                              dynamicPicking, modelSelection, showModelEvaluation,
                              answer, loads, crashed, nops>>
    /\ UNCHANGED rvars
    /\ UNCHANGED select
    /\ UNCHANGED tvars
    /\ EditorKept
    /\ UNCHANGED lvars
    /\ UNCHANGED hvars

\* an error case that removes the optimistic messages as the catch block does
SendErrorRollingBack ==
    /\ ~crashed
    /\ send.st = "open"
    /\ send.k <= MaxFailStep
    /\ send' = IdleOp
    /\ isLoading' = FALSE
    /\ currentConversation' = Rollback(currentConversation)
    /\ UNCHANGED <<currentConversationId, settings, chatvars,
                   council, answer, loads, crashed, srvvars>>
    /\ UNCHANGED rvars
    /\ UNCHANGED select
    /\ UNCHANGED tvars
    /\ EditorKept
    /\ UNCHANGED lvars
    /\ UNCHANGED hvars

\* the stream carries an `error` event and ends
SendError ==
    /\ ~crashed
    /\ send.st = "open"
    /\ send.k <= MaxFailStep
    /\ send' = IdleOp
    /\ isLoading' = FALSE
    /\ UNCHANGED <<currentConversationId, currentConversation, settings, chatvars,
                   council, answer, loads, crashed, srvvars>>
    /\ UNCHANGED rvars
    /\ UNCHANGED select
    /\ UNCHANGED tvars
    /\ EditorKept
    /\ UNCHANGED lvars
    /\ UNCHANGED hvars

\* the request is rejected or the transport fails: the catch block of
\* handleSendMessage removes the optimistic messages
SendFail ==
    /\ ~crashed
    /\ Busy(send)
    /\ currentConversation' = Rollback(currentConversation)
    /\ showClarificationUI' = ClarificationEffect(Rollback(currentConversation))
    /\ isLoading' = FALSE
    /\ send' = IdleOp
    /\ council' = Disturbed(council)
    /\ UNCHANGED <<currentConversationId, settings, clarificationLoading,
                   dynamicPicking, modelSelection, showModelEvaluation, answer,
                   loads, crashed, srvvars>>
    /\ UNCHANGED rvars
    /\ UNCHANGED select
    /\ UNCHANGED tvars
    /\ EditorKept
    /\ UNCHANGED lvars
    /\ UNCHANGED hvars

\* handleSubmitClarificationAnswer up to the request
SubmitAnswer ==
    /\ ~crashed
    /\ currentConversation.id # 0
    /\ showClarificationUI
    /\ ClarificationKind(currentConversation) = "question"
    /\ ~clarificationLoading
    /\ answer.st = "idle"
    /\ nops < MaxOps
    /\ answer' = [st |-> "pending", sid |-> currentConversation.id, a |-> nops + 1]
    /\ clarificationLoading' = TRUE
    /\ nops' = nops + 1
    /\ UNCHANGED <<appvars, showClarificationUI, dynamicPicking, modelSelection,
                   showModelEvaluation, send, council, loads, crashed, server>>
    /\ UNCHANGED rvars
    /\ UNCHANGED select
    /\ UNCHANGED tvars
    /\ EditorKept
    /\ UNCHANGED lvars
    /\ UNCHANGED hvars

\* the collaborator answers with the next question or with the briefing
AnswerResult ==
    /\ ~crashed
    /\ answer.st = "pending"
    /\ \E kind \in {"question", "briefing"} :
        LET result == 100 + answer.a
            d == IF kind = "briefing"
                 THEN AnswerBriefing(currentConversation, answer.a, result)
                 ELSE AnswerQuestion(currentConversation, answer.a, result)
        IN /\ currentConversation' = d
           /\ showClarificationUI' = ClarificationEffect(d)
           /\ server' = [server EXCEPT ![answer.sid] =
                            IF kind = "briefing"
                            THEN AnswerBriefing(@, answer.a, result)
                            ELSE AnswerQuestion(@, answer.a, result)]
    /\ clarificationLoading' = FALSE
    /\ answer' = [st |-> "idle", sid |-> 0, a |-> 0]
    /\ UNCHANGED <<currentConversationId, isLoading, settings, dynamicPicking,
                   modelSelection, showModelEvaluation, send, council, loads,
                   crashed, nops>>
    /\ UNCHANGED rvars
    /\ UNCHANGED select
    /\ UNCHANGED tvars
    /\ EditorKept
    /\ UNCHANGED lvars
    /\ UNCHANGED hvars

\* the answer call fails: the failure is reported, nothing is recorded
AnswerFail ==
    /\ ~crashed
    /\ answer.st = "pending"
    /\ clarificationLoading' = FALSE
    /\ answer' = [st |-> "idle", sid |-> 0, a |-> 0]
    /\ UNCHANGED <<appvars, showClarificationUI, dynamicPicking, modelSelection,
                   showModelEvaluation, send, council, loads, crashed, srvvars>>
    /\ UNCHANGED rvars
    /\ UNCHANGED select
    /\ UNCHANGED tvars
    /\ EditorKept
    /\ UNCHANGED lvars
    /\ UNCHANGED hvars

\* proceedToCouncil up to the request: the placeholder is appended to the
\* current document, the stream is requested for the conversation the handler
\* was created for
ProceedToCouncil(doc, sid) ==
    /\ currentConversation' = AppendMessage(doc, CouncilPlaceholder)
    /\ showClarificationUI' =
          ClarificationEffect(AppendMessage(doc, CouncilPlaceholder))
    /\ clarificationLoading' = TRUE
    /\ council' = [st |-> "req", sid |-> sid, mode |-> "council", p |-> 0,
                   k |-> 0, content |-> 0, pre |-> doc.messages, appended |-> 1,
                   intact |-> TRUE]
    /\ send' = Disturbed(send)

\* handleConfirmBriefing: confirm locally, then pick models when an override
\* is configured, else proceed to the council
ConfirmBriefing ==
    /\ ~crashed
    /\ currentConversation.id # 0
    /\ showClarificationUI
    /\ ClarificationKind(currentConversation) = "briefing"
    /\ ~clarificationLoading
    /\ council.st = "idle"
    /\ IF dynamicPicking
       THEN /\ currentConversation' = ConfirmedState(currentConversation)
            /\ showClarificationUI' =
                  ClarificationEffect(ConfirmedState(currentConversation))
            /\ council' = [IdleOp EXCEPT !.st = "picking",
                                         !.sid = currentConversation.id]
            /\ UNCHANGED <<clarificationLoading, send>>
       ELSE ProceedToCouncil(ConfirmedState(currentConversation),
                             currentConversation.id)
    /\ UNCHANGED <<currentConversationId, isLoading, settings, dynamicPicking,
                   modelSelection, showModelEvaluation, answer, loads, crashed,
                   srvvars>>
    /\ UNCHANGED rvars
    /\ UNCHANGED select
    /\ UNCHANGED tvars
    /\ EditorKept
    /\ UNCHANGED lvars
    /\ UNCHANGED hvars

\* Faulty variant: the picker's result is stored and the council is started
\* at once, without waiting for the user
PickSuccessProceeding ==
    /\ ~crashed
    /\ council.st = "picking"
    /\ modelSelection' \in PickerResults
    /\ showModelEvaluation' = TRUE
    /\ ProceedToCouncil(currentConversation, council.sid)
    /\ UNCHANGED <<currentConversationId, isLoading, settings, dynamicPicking,
                   answer, loads, crashed, srvvars>>
    /\ UNCHANGED rvars
    /\ UNCHANGED select
    /\ UNCHANGED tvars
    /\ EditorKept
    /\ UNCHANGED lvars
    /\ UNCHANGED hvars

\* pickModels returns: the evaluation stage is shown, the handler stops
PickSuccess ==
    /\ ~crashed
    /\ council.st = "picking"
    /\ modelSelection' \in PickerResults
    /\ showModelEvaluation' = TRUE
    /\ council' = [council EXCEPT !.st = "eval"]
    /\ UNCHANGED <<appvars, showClarificationUI, clarificationLoading,
                   dynamicPicking, send, answer, loads, crashed, srvvars>>
    /\ UNCHANGED rvars
    /\ UNCHANGED select
    /\ UNCHANGED tvars
    /\ EditorKept
    /\ UNCHANGED lvars
    /\ UNCHANGED hvars

\* Faulty variant: a failed pick takes the confirmation back and gives up
PickFailUnconfirming ==
    /\ ~crashed
    /\ council.st = "picking"
    /\ currentConversation' =
          [currentConversation EXCEPT !.clarification_state.confirmed = FALSE,
                                      !.clarification_state.active = TRUE]
    /\ council' = IdleOp
    /\ UNCHANGED <<currentConversationId, isLoading, settings, chatvars, send,
                   answer, loads, crashed, srvvars>>
    /\ UNCHANGED rvars
    /\ UNCHANGED select
    /\ UNCHANGED tvars
    /\ EditorKept
    /\ UNCHANGED lvars
    /\ UNCHANGED hvars

\* pickModels fails: fall through to the council with the default models
PickFail ==
    /\ ~crashed
    /\ council.st = "picking"
    /\ ProceedToCouncil(currentConversation, council.sid)
    /\ UNCHANGED <<currentConversationId, isLoading, settings, dynamicPicking,
                   modelSelection, showModelEvaluation, answer, loads, crashed,
                   srvvars>>
    /\ UNCHANGED rvars
    /\ UNCHANGED select
    /\ UNCHANGED tvars
    /\ EditorKept
    /\ UNCHANGED lvars
    /\ UNCHANGED hvars

\* handleProceedFromModelEvaluation up to the request that persists the
\* selection
ProceedFromModelEvaluation ==
    /\ ~crashed
    /\ council.st = "eval"
    /\ EvaluationVisible
    /\ currentConversation' =
          StoreModelSelection(currentConversation, modelSelection)
    /\ showClarificationUI' =
          ClarificationEffect(StoreModelSelection(currentConversation, modelSelection))
    /\ council' = [council EXCEPT !.st = "persisting",
                                  !.sid = currentConversation.id]
    /\ UNCHANGED <<currentConversationId, isLoading, settings, clarificationLoading,
                   dynamicPicking, modelSelection, showModelEvaluation, send,
                   answer, loads, crashed, srvvars>>
    /\ UNCHANGED rvars
    /\ UNCHANGED select
    /\ UNCHANGED tvars
    /\ EditorKept
    /\ UNCHANGED lvars
    /\ UNCHANGED hvars

\* the persist call returns (stored or failed): the evaluation stage is
\* hidden and the council is started
PersistDone ==
    /\ ~crashed
    /\ council.st = "persisting"
    /\ \E ok \in BOOLEAN :
          server' = IF ok
                    THEN [server EXCEPT ![council.sid].model_selection = modelSelection]
                    ELSE server
    /\ showModelEvaluation' = FALSE
    /\ ProceedToCouncil(currentConversation, council.sid)
    /\ UNCHANGED <<currentConversationId, isLoading, settings, dynamicPicking,
                   modelSelection, answer, loads, crashed, nops>>
    /\ UNCHANGED rvars
    /\ UNCHANGED select
    /\ UNCHANGED tvars
    /\ EditorKept
    /\ UNCHANGED lvars
    /\ UNCHANGED hvars

\* handleCancelModelEvaluation
CancelModelEvaluation ==
    /\ ~crashed
    /\ council.st = "eval"
    /\ EvaluationVisible
    /\ showModelEvaluation' = FALSE
    /\ modelSelection' = NoSelection
    /\ dynamicPicking' = FALSE
    /\ currentConversation' = CancelState(currentConversation)
    /\ showClarificationUI' = ClarificationEffect(CancelState(currentConversation))
    /\ council' = IdleOp
    /\ send' = Disturbed(send)
    /\ UNCHANGED <<currentConversationId, isLoading, settings, clarificationLoading,
                   answer, loads, crashed, srvvars>>
    /\ UNCHANGED rvars
    /\ UNCHANGED select
    /\ UNCHANGED tvars
    /\ EditorKept
    /\ UNCHANGED lvars
    /\ UNCHANGED hvars

\* the collaborator accepts the confirmation and opens the stream
CouncilAccept ==
    /\ ~crashed
    /\ council.st = "req"
    /\ council' = [council EXCEPT !.st = "open", !.p = CouncilPayload]
    /\ server' = [server EXCEPT ![council.sid] = ConfirmedState(@)]
    /\ UNCHANGED <<appvars, chatvars, send, answer, loads, crashed, nops>>
    /\ UNCHANGED rvars
    /\ UNCHANGED select
    /\ UNCHANGED tvars
    /\ EditorKept
    /\ UNCHANGED lvars
    /\ UNCHANGED hvars

\* the next event of the confirm-briefing stream reaches the onEvent callback;
\* on `complete` the conversation is reloaded
CouncilEvent ==
    /\ ~crashed
    /\ council.st = "open"
    /\ LET script == CouncilScript(council.p)
           ev == script[council.k + 1]
           srv == ServerAfter(server, council.sid, "council", council.p, ev)
       IN IF ConfirmThrows(currentConversation, ev)
          THEN Crash
          ELSE /\ currentConversation' = ApplyConfirm(currentConversation, ev)
               /\ showClarificationUI' =
                     IF ev.type \in StageTypes
                     THEN ClarificationEffect(ApplyConfirm(currentConversation, ev))
                     ELSE showClarificationUI
               /\ clarificationLoading' =
                     IF ev.type = "complete" THEN FALSE ELSE clarificationLoading
               /\ council' = IF council.k + 1 = Len(script)
                             THEN IdleOp ELSE [council EXCEPT !.k = @ + 1]
               /\ send' = IF ev.type \in StageTypes THEN Disturbed(send) ELSE send
               /\ server' = srv
               /\ loads' = IF ev.type = "complete"
                           THEN loads \cup {srv[council.sid]} ELSE loads
               /\ UNCHANGED <<currentConversationId, isLoading, settings,
                              dynamicPicking, modelSelection, showModelEvaluation,
                              answer, crashed, nops>>
    /\ UNCHANGED rvars
    /\ UNCHANGED select
    /\ UNCHANGED tvars
    /\ EditorKept
    /\ UNCHANGED lvars
    /\ UNCHANGED hvars

\* the stream carries an `error` event and ends
CouncilError ==
    /\ ~crashed
    /\ council.st = "open"
    /\ council.k <= MaxFailStep
    /\ council' = IdleOp
    /\ clarificationLoading' = FALSE
    /\ UNCHANGED <<appvars, showClarificationUI, dynamicPicking, modelSelection,
                   showModelEvaluation, send, answer, loads, crashed, srvvars>>
    /\ UNCHANGED rvars
    /\ UNCHANGED select
    /\ UNCHANGED tvars
    /\ EditorKept
    /\ UNCHANGED lvars
    /\ UNCHANGED hvars

\* the confirm request is rejected or the transport fails: the failure is
\* reported, the document is left as it is
CouncilFail ==
    /\ ~crashed
    /\ Busy(council)
    /\ council.k <= MaxFailStep
    /\ council' = IdleOp
    /\ clarificationLoading' = FALSE
    /\ UNCHANGED <<appvars, showClarificationUI, dynamicPicking, modelSelection,
                   showModelEvaluation, send, answer, loads, crashed, srvvars>>
    /\ UNCHANGED rvars
    /\ UNCHANGED select
    /\ UNCHANGED tvars
    /\ EditorKept
    /\ UNCHANGED lvars
    /\ UNCHANGED hvars

\* ReasoningControls: the user configures or clears the model-picking
\* override; the editor opens only while the conversation has no message
SetDynamicPicking ==
    /\ ~crashed
    /\ currentConversation.id # 0
    /\ ~showClarificationUI
    /\ Len(currentConversation.messages) = 0
    /\ dynamicPicking' = ~dynamicPicking
    /\ UNCHANGED <<appvars, showClarificationUI, clarificationLoading,
                   modelSelection, showModelEvaluation, opvars, srvvars>>
    /\ UNCHANGED rvars
    /\ UNCHANGED select
    /\ UNCHANGED tvars
    /\ EditorKept
    /\ UNCHANGED lvars
    /\ UNCHANGED hvars

\* toggleEditor('models'): the models editor opens unless the document is
\* locked
OpenModelsEditor ==
    /\ ~crashed
    /\ currentConversation.id # 0
    /\ ~showClarificationUI
    /\ ~editorOpen
    /\ Len(currentConversation.messages) = 0
    /\ editorOpen' = TRUE
    /\ UNCHANGED <<appvars, chatvars, opvars, select, srvvars>>
    /\ UNCHANGED rvars
    /\ UNCHANGED tvars
    /\ UNCHANGED lvars
    /\ UNCHANGED hvars

\* a button of the models editor: onDynamicPickingChange, then the editor
\* closes
ChooseModels ==
    /\ ~crashed
    /\ ~showClarificationUI
    /\ editorOpen
    /\ \E v \in BOOLEAN : dynamicPicking' = v
    /\ editorOpen' = FALSE
    /\ UNCHANGED <<appvars, showClarificationUI, clarificationLoading,
                   modelSelection, showModelEvaluation, opvars, select, srvvars>>
    /\ UNCHANGED rvars
    /\ UNCHANGED tvars
    /\ UNCHANGED lvars
    /\ UNCHANGED hvars

\* a mouse click outside ReasoningControls, or a second click on the chip
CloseEditor ==
    /\ ~crashed
    /\ editorOpen
    /\ editorOpen' = FALSE
    /\ UNCHANGED <<appvars, chatvars, opvars, select, srvvars>>
    /\ UNCHANGED rvars
    /\ UNCHANGED tvars
    /\ UNCHANGED lvars
    /\ UNCHANGED hvars

\* handleSelectConversation and the effect that loads the selected
\* conversation: the collaborator answers with the document it holds
SelectConversation ==
    /\ ~crashed
    /\ nops < MaxOps
    /\ \E id \in Sessions :
        /\ id # currentConversationId
        /\ currentConversationId' = id
        /\ loads' = loads \cup {server[id]}
    /\ nops' = nops + 1
    /\ UNCHANGED <<currentConversation, isLoading, settings, chatvars, send,
                   council, answer, crashed, server>>
    /\ UNCHANGED rvars
    /\ UNCHANGED select
    /\ UNCHANGED tvars
    /\ EditorKept
    /\ UNCHANGED lvars
    /\ UNCHANGED hvars

\* loadConversation: the response replaces the displayed document
LoadResponse ==
    /\ ~crashed
    /\ \E conv \in loads :
        /\ currentConversation' = conv
        /\ showClarificationUI' = ClarificationEffect(conv)
        /\ dynamicPicking' = PickingEffect(currentConversation, conv, dynamicPicking)
        /\ loads' = loads \ {conv}
    /\ send' = Disturbed(send)
    /\ council' = Disturbed(council)
    /\ UNCHANGED <<currentConversationId, isLoading, settings, clarificationLoading,
                   modelSelection, showModelEvaluation, answer, crashed, srvvars>>
    /\ UNCHANGED rvars
    /\ UNCHANGED select
    /\ UNCHANGED tvars
    /\ EditorKept
    /\ UNCHANGED lvars
    /\ UNCHANGED hvars

\* loadConversation: the call fails, the failure is logged
LoadFail ==
    /\ ~crashed
    /\ \E conv \in loads : loads' = loads \ {conv}
    /\ UNCHANGED <<appvars, chatvars, send, council, answer, crashed, srvvars>>
    /\ UNCHANGED rvars
    /\ UNCHANGED select
    /\ UNCHANGED tvars
    /\ EditorKept
    /\ UNCHANGED lvars
    /\ UNCHANGED hvars

\* no select-context / select-role call is in flight
IdleSelect == [st |-> "idle", sid |-> 0, kind |-> "none", val |-> 0]

\* the document with the snapshot of the given kind set
WithSnapshot(conv, kind, val) ==
    IF kind = "context"
    THEN [conv EXCEPT !.context_snapshot = val]
    ELSE [conv EXCEPT !.role_snapshot = val]

\* handleSelectContextForConversation / handleSelectRoleForConversation up to
\* the request: the update is requested only while the displayed document has
\* no message (the selectors are part of the message form)
SelectSnapshot ==
    /\ ~crashed
    /\ currentConversation.id # 0
    /\ currentConversationId # 0
    /\ ~showClarificationUI
    /\ Len(currentConversation.messages) = 0
    /\ select.st = "idle"
    /\ nops < MaxOps
    /\ \E kind \in {"context", "role"} :
          select' = [st |-> "pending", sid |-> currentConversationId,
                     kind |-> kind, val |-> nops + 1]
    /\ nops' = nops + 1
    /\ UNCHANGED <<appvars, chatvars, opvars, server>>
    /\ UNCHANGED rvars
    /\ UNCHANGED tvars
    /\ EditorKept
    /\ UNCHANGED lvars
    /\ UNCHANGED hvars

\* the collaborator updates the snapshot of a session that has no message yet
\* and answers with its document, which replaces the displayed one
SnapshotResult ==
    /\ ~crashed
    /\ select.st = "pending"
    /\ Len(server[select.sid].messages) = 0
    /\ LET updatedConv == WithSnapshot(server[select.sid], select.kind, select.val)
       IN /\ server' = [server EXCEPT ![select.sid] = updatedConv]
          /\ currentConversation' = updatedConv
          /\ showClarificationUI' = ClarificationEffect(updatedConv)
          /\ dynamicPicking' =
                PickingEffect(currentConversation, updatedConv, dynamicPicking)
    /\ select' = IdleSelect
    /\ send' = Disturbed(send)
    /\ council' = Disturbed(council)
    /\ UNCHANGED <<currentConversationId, isLoading, settings, clarificationLoading,
                   modelSelection, showModelEvaluation, answer, loads, crashed,
                   nops>>
    /\ UNCHANGED rvars
    /\ UNCHANGED tvars
    /\ EditorKept
    /\ UNCHANGED lvars
    /\ UNCHANGED hvars

\* the collaborator refuses the update or the call fails: the failure is
\* logged
SnapshotFail ==
    /\ ~crashed
    /\ select.st = "pending"
    /\ select' = IdleSelect
    /\ UNCHANGED <<appvars, chatvars, opvars, srvvars>>
    /\ UNCHANGED rvars
    /\ UNCHANGED tvars
    /\ EditorKept
    /\ UNCHANGED lvars
    /\ UNCHANGED hvars

----------------------------------------------------------------------------
\* Initial state: session 1 has just been created and is displayed; session 2
\* is an earlier conversation the collaborator holds, whose briefing waits for
\* its confirmation.

EmptyConversation(id) ==
    [id |-> id, title |-> 0, messages |-> <<>>, clarification_state |-> NoCS,
     model_selection |-> NoSelection, context_snapshot |-> 0, role_snapshot |-> 0]

BriefedConversation(id) ==
    [EmptyConversation(id) EXCEPT
        !.title = 1,
        !.messages = <<UserMessage(7)>>,
        !.clarification_state =
            [present |-> TRUE, active |-> FALSE, history |-> <<7>>,
             current_question |-> 7, briefing |-> 7, confirmed |-> FALSE]]

InitServer ==
    [id \in Sessions |->
        IF id = 1 THEN EmptyConversation(1) ELSE BriefedConversation(id)]

CInit ==
    /\ currentConversationId = 1
    /\ currentConversation = EmptyConversation(1)
    /\ isLoading = FALSE
    /\ settings \in BOOLEAN
    /\ showClarificationUI = FALSE
    /\ clarificationLoading = FALSE
    /\ dynamicPicking = FALSE
    /\ modelSelection = NoSelection
    /\ showModelEvaluation = FALSE
    /\ send = IdleOp
    /\ council = IdleOp
    /\ answer = [st |-> "idle", sid |-> 0, a |-> 0]
    /\ loads = {}
    /\ crashed = FALSE
    /\ select = IdleSelect
    /\ editorOpen = FALSE
    /\ server = InitServer
    /\ nops = 0

\* the reducer variables are not used by the controller specification
RIdle ==
    /\ rorig = NoConv
    /\ rdoc = NoConv
    /\ rprev = NoConv
    /\ rev = [type |-> "none", data |-> 0, metadata |-> 0]
    /\ rh = "none"
    /\ rn = 0

\* the stream-reader variables are not used by the controller specification
TIdle ==
    /\ chunks = <<>>
    /\ nread = 0
    /\ delivered = <<>>
    /\ reading = FALSE

\* no create / update / delete call is in flight
NoCall == [op |-> "none", sid |-> 0, val |-> 0, before |-> <<>>]

\* the collaborator-call variables are not used by the controller
\* specification
LIdle ==
    /\ conversations = Sessions
    /\ selectedContext = 0
    /\ selectedRole = 0
    /\ call = NoCall

\* no document has been built from message objects
HIdle ==
    /\ objects = <<>>
    /\ hmessages = <<>>
    /\ published = <<>>

Init == CInit /\ RIdle /\ TIdle /\ LIdle /\ HIdle

Next ==
    \/ SendMessage
    \/ SendAccept
    \/ SendEvent
    \/ SendError
    \/ SendFail
    \/ SubmitAnswer
    \/ AnswerResult
    \/ AnswerFail
    \/ ConfirmBriefing
    \/ PickSuccess
    \/ PickFail
    \/ ProceedFromModelEvaluation
    \/ PersistDone
    \/ CancelModelEvaluation
    \/ CouncilAccept
    \/ CouncilEvent
    \/ CouncilError
    \/ CouncilFail
    \/ SetDynamicPicking
    \/ SelectConversation
    \/ LoadResponse
    \/ LoadFail
    \/ SelectSnapshot
    \/ SnapshotResult
    \/ SnapshotFail


Spec == Init /\ [][Next]_vars

----------------------------------------------------------------------------
\* SpecAnswer: the answer loop of the clarification, started where the first
\* message of session 1 was sent with clarification enabled and its stream has
\* delivered the question and ended. From there the user answers, switches
\* between the sessions and confirms briefings.

\* the document of session 1 after the first message and its question
QuestionedConversation ==
    ApplySend(AppendMessage(OptimisticTitle(EmptyConversation(1), 1),
                            UserMessage(1)),
              ClarifyScript(1)[2])

\* what the collaborator holds for session 1 at that point
QuestionedServer ==
    ServerAfter([InitServer EXCEPT ![1].messages = Append(@, UserMessage(1))],
                1, "clarify", 1, ClarifyScript(1)[2])

InitAnswer ==
    /\ currentConversationId = 1
    /\ currentConversation = QuestionedConversation
    /\ isLoading = FALSE
    /\ settings = TRUE
    /\ showClarificationUI = ClarificationEffect(QuestionedConversation)
    /\ clarificationLoading = FALSE
    /\ dynamicPicking = FALSE
    /\ modelSelection = NoSelection
    /\ showModelEvaluation = FALSE
    /\ send = IdleOp
    /\ council = IdleOp
    /\ answer = [st |-> "idle", sid |-> 0, a |-> 0]
    /\ loads = {}
    /\ crashed = FALSE
    /\ select = IdleSelect
    /\ editorOpen = FALSE
    /\ server = QuestionedServer
    /\ nops = 0
    /\ RIdle
    /\ TIdle
    /\ LIdle
    /\ HIdle

NextAnswer ==
    \/ SubmitAnswer
    \/ AnswerResult
    \/ AnswerFail
    \/ ConfirmBriefing
    \/ CouncilAccept
    \/ CouncilEvent
    \/ CouncilError
    \/ CouncilFail
    \/ SelectConversation
    \/ LoadResponse
    \/ LoadFail

SpecAnswer == InitAnswer /\ [][NextAnswer]_vars

----------------------------------------------------------------------------
\* SpecControls: the message form with the models editor of ReasoningControls
\* taken step by step: the editor is opened, a choice is made in it or it is
\* closed, and messages are sent from the keyboard while it is open.

NextControls ==
    \/ OpenModelsEditor
    \/ ChooseModels
    \/ CloseEditor
    \/ SendMessage
    \/ SendAccept
    \/ SendEvent
    \/ SendError
    \/ SendFail

SpecControls == Init /\ [][NextControls]_vars

----------------------------------------------------------------------------
\* SpecCollab: the handlers of App that call the collaborator for a session as
\* a whole: create, update of the context or role, delete. One call is in
\* flight at a time; it succeeds or fails.

\* the id the collaborator gives to the session it creates
NewId == 3

\* the contexts and roles the user can choose: null or the record 1
Choices == {0, 1}

\* the local state the handlers of App work on
Local ==
    <<conversations, currentConversationId, currentConversation,
      selectedContext, selectedRole>>

\* what the handlers of SpecCollab leave alone
CollabFrame ==
    /\ UNCHANGED <<isLoading, settings, clarificationLoading, modelSelection,
                   showModelEvaluation, opvars, select, editorOpen, srvvars>>
    /\ UNCHANGED rvars
    /\ UNCHANGED tvars
    /\ UNCHANGED hvars

\* handleNewConversation up to the request
NewConversation ==
    /\ call.op = "none"
    /\ NewId \notin conversations
    /\ call' = [op |-> "create", sid |-> 0, val |-> 0, before |-> Local]
    /\ UNCHANGED <<conversations, selectedContext, selectedRole, appvars,
                   showClarificationUI, dynamicPicking>>
    /\ CollabFrame

\* createConversation returns the new session
CreateOk ==
    /\ call.op = "create"
    /\ LET newConv == [EmptyConversation(NewId) EXCEPT
                          !.context_snapshot = selectedContext,
                          !.role_snapshot = selectedRole]
       IN /\ conversations' = conversations \cup {NewId}
          /\ currentConversationId' = NewId
          /\ currentConversation' = newConv
          /\ showClarificationUI' = ClarificationEffect(newConv)
          /\ dynamicPicking' = PickingEffect(currentConversation, newConv,
                                             dynamicPicking)
    /\ call' = NoCall
    /\ UNCHANGED <<selectedContext, selectedRole>>
    /\ CollabFrame

\* createConversation fails: the catch block logs
CreateFail ==
    /\ call.op = "create"
    /\ call' = NoCall
    /\ UNCHANGED <<conversations, selectedContext, selectedRole, appvars,
                   showClarificationUI, dynamicPicking>>
    /\ CollabFrame

\* handleSelectContextForConversation / handleSelectRoleForConversation up to
\* the request: the selection is stored, the update is requested when the
\* displayed document has no message
SelectForConversation ==
    /\ call.op = "none"
    /\ \E kind \in {"context", "role"}, c \in Choices :
        /\ IF kind = "context"
           THEN selectedContext' = c /\ UNCHANGED selectedRole
           ELSE selectedRole' = c /\ UNCHANGED selectedContext
        /\ call' = IF currentConversation.id # 0
                      /\ Len(currentConversation.messages) = 0
                   THEN [op |-> kind, sid |-> currentConversationId, val |-> c,
                         before |-> Local]
                   ELSE call
    /\ UNCHANGED <<conversations, appvars, showClarificationUI, dynamicPicking>>
    /\ CollabFrame

\* the update returns the document with the snapshot set
UpdateOk ==
    /\ call.op \in {"context", "role"}
    /\ LET updatedConv == WithSnapshot(currentConversation, call.op, call.val)
       IN /\ currentConversation' = updatedConv
          /\ showClarificationUI' = ClarificationEffect(updatedConv)
    /\ call' = NoCall
    /\ UNCHANGED <<conversations, selectedContext, selectedRole,
                   currentConversationId, isLoading, settings, dynamicPicking>>
    /\ UNCHANGED <<clarificationLoading, modelSelection, showModelEvaluation,
                   opvars, select, editorOpen, srvvars>>
    /\ UNCHANGED rvars
    /\ UNCHANGED tvars
    /\ UNCHANGED hvars

\* the update fails: the catch block logs
UpdateFail ==
    /\ call.op \in {"context", "role"}
    /\ call' = NoCall
    /\ UNCHANGED <<conversations, selectedContext, selectedRole, appvars,
                   showClarificationUI, dynamicPicking>>
    /\ CollabFrame

\* handleDeleteConversation up to the request
DeleteConversation ==
    /\ call.op = "none"
    /\ \E id \in conversations :
          call' = [op |-> "delete", sid |-> id, val |-> 0, before |-> Local]
    /\ UNCHANGED <<conversations, selectedContext, selectedRole, appvars,
                   showClarificationUI, dynamicPicking>>
    /\ CollabFrame

\* deleteConversation returns: the session leaves the list, and the display
\* when it was the current one
DeleteOk ==
    /\ call.op = "delete"
    /\ conversations' = conversations \ {call.sid}
    /\ IF call.sid = currentConversationId
       THEN /\ currentConversationId' = 0
            /\ currentConversation' = NoConv
            /\ showClarificationUI' = ClarificationEffect(NoConv)
            /\ dynamicPicking' = PickingEffect(currentConversation, NoConv,
                                               dynamicPicking)
       ELSE UNCHANGED <<currentConversationId, currentConversation,
                        showClarificationUI, dynamicPicking>>
    /\ call' = NoCall
    /\ UNCHANGED <<selectedContext, selectedRole>>
    /\ CollabFrame

\* deleteConversation fails: the catch block logs and alerts
DeleteFail ==
    /\ call.op = "delete"
    /\ call' = NoCall
    /\ UNCHANGED <<conversations, selectedContext, selectedRole, appvars,
                   showClarificationUI, dynamicPicking>>
    /\ CollabFrame

\* a session is displayed with the document the collaborator holds for it
InitCollab ==
    /\ \E id \in Sessions :
          /\ currentConversationId = id
          /\ currentConversation = InitServer[id]
          /\ showClarificationUI = ClarificationEffect(InitServer[id])
    /\ isLoading = FALSE
    /\ settings \in BOOLEAN
    /\ clarificationLoading = FALSE
    /\ dynamicPicking \in BOOLEAN
    /\ modelSelection = NoSelection
    /\ showModelEvaluation = FALSE
    /\ send = IdleOp
    /\ council = IdleOp
    /\ answer = [st |-> "idle", sid |-> 0, a |-> 0]
    /\ loads = {}
    /\ crashed = FALSE
    /\ select = IdleSelect
    /\ editorOpen = FALSE
    /\ server = InitServer
    /\ nops = 0
    /\ RIdle
    /\ TIdle
    /\ LIdle
    /\ HIdle

NextCollab ==
    \/ NewConversation
    \/ CreateOk
    \/ CreateFail
    \/ SelectForConversation
    \/ UpdateOk
    \/ UpdateFail
    \/ DeleteConversation
    \/ DeleteOk
    \/ DeleteFail

SpecCollab == InitCollab /\ [][NextCollab]_vars

----------------------------------------------------------------------------
\* SpecReducer: the event handlers as functions. Init draws a document; an
\* event of the taxonomy is applied by one of the two handlers, and may then be
\* applied a second time.

NoEvent == Ev("none", 0, 0)

REvents ==
    {Ev(t, 0, 0) : t \in StageStartTypes \cup
                     {"clarification_auto_start", "complete", "error", "unknown"}}
    \cup {Ev(t, p, 0) : t \in {"stage1_complete", "stage3_complete",
                               "clarification_question"}, p \in Payloads}
    \cup {Ev("stage2_complete", p, m) : p \in Payloads, m \in Payloads}
    \cup {Ev("title_complete", t, 0) : t \in {0} \cup Payloads}

\* assistant messages built by the handlers: any stage field may be set and
\* any loading flag raised, since the handlers trust the order of the stream
RAssistants ==
    {[role |-> "assistant", content |-> 0, stage1 |-> s1, stage2 |-> s2,
      stage3 |-> s3, metadata |-> s2, hasLoading |-> TRUE,
      loading |-> [stage1 |-> l1, stage2 |-> l2, stage3 |-> l3]] :
        s1 \in {0, 1}, s2 \in {0, 1}, s3 \in {0, 1},
        l1 \in BOOLEAN, l2 \in BOOLEAN, l3 \in BOOLEAN}

RMessageLists ==
    {<<>>, <<UserMessage(1)>>, <<UserMessage(1), LoadedAssistant(1)>>}
    \cup {<<UserMessage(1), a>> : a \in RAssistants}
    \cup {<<UserMessage(1), LoadedAssistant(1), UserMessage(2), a>> : a \in RAssistants}

RClarifications ==
    {NoCS,
     [present |-> TRUE, active |-> TRUE, history |-> <<1>>,
      current_question |-> 1, briefing |-> 0, confirmed |-> FALSE],
     [present |-> TRUE, active |-> FALSE, history |-> <<1, 2>>,
      current_question |-> 1, briefing |-> 1, confirmed |-> TRUE]}

RDocs ==
    {[id |-> 1, title |-> 0, messages |-> ms, clarification_state |-> c,
      model_selection |-> NoSelection, context_snapshot |-> 0, role_snapshot |-> 0] :
        ms \in RMessageLists, c \in RClarifications}

RInit ==
    /\ rorig \in RDocs
    /\ rdoc = rorig
    /\ rprev = rorig
    /\ rev = NoEvent
    /\ rh = "none"
    /\ rn = 0

RApplySend ==
    /\ rn = 0
    /\ \E ev \in REvents :
        /\ ~SendThrows(rdoc, ev)
        /\ rdoc' = ApplySend(rdoc, ev)
        /\ rev' = ev
    /\ rprev' = rdoc
    /\ rh' = "send"
    /\ rn' = 1
    /\ UNCHANGED rorig
    /\ UNCHANGED cvars
    /\ UNCHANGED tvars
    /\ UNCHANGED lvars
    /\ UNCHANGED hvars

RApplyConfirm ==
    /\ rn = 0
    /\ \E ev \in REvents :
        /\ ~ConfirmThrows(rdoc, ev)
        /\ rdoc' = ApplyConfirm(rdoc, ev)
        /\ rev' = ev
    /\ rprev' = rdoc
    /\ rh' = "confirm"
    /\ rn' = 1
    /\ UNCHANGED rorig
    /\ UNCHANGED cvars
    /\ UNCHANGED tvars
    /\ UNCHANGED lvars
    /\ UNCHANGED hvars

\* the same event delivered again to the same handler
RRepeat ==
    /\ rn = 1
    /\ IF rh = "send" THEN ~SendThrows(rdoc, rev) ELSE ~ConfirmThrows(rdoc, rev)
    /\ rdoc' = IF rh = "send" THEN ApplySend(rdoc, rev) ELSE ApplyConfirm(rdoc, rev)
    /\ rprev' = rdoc
    /\ rn' = 2
    /\ UNCHANGED <<rorig, rev, rh>>
    /\ UNCHANGED cvars
    /\ UNCHANGED tvars
    /\ UNCHANGED lvars
    /\ UNCHANGED hvars

RNext == RApplySend \/ RApplyConfirm \/ RRepeat

\* the controller variables are not used by the reducer specification
InitReducer == RInit /\ TIdle /\ LIdle /\ HIdle /\ CInit /\ settings = FALSE

SpecReducer == InitReducer /\ [][RNext]_vars

----------------------------------------------------------------------------
\* SpecTransport: the read loop of sendMessageStream (the loop of
\* confirmClarificationBriefing has the same text). The response body is a
\* sequence of tokens: "P" is the prefix `data: `, "NL" the line feed, "E1"
\* and "E2" are the texts of two JSON events, "X" is text that is no JSON.
\* The transport hands the body to the reader in chunks cut at any place.

\* number of records of a response body
MaxRecords == 3

\* number of places at which the transport cuts the body into chunks
MaxCuts == 1

EventTokens == {"E1", "E2"}

\* the lines a body is made of: two events, a record whose payload is no
\* JSON, and a line that is no `data: ` record
RecordKinds == {<<"P", "E1">>, <<"P", "E2">>, <<"P", "X">>, <<"X">>}

RECURSIVE Flatten(_)
Flatten(ss) == IF ss = <<>> THEN <<>> ELSE Head(ss) \o Flatten(Tail(ss))

\* every record is followed by a line feed
Bodies ==
    UNION {{Flatten([i \in 1..n |-> recs[i] \o <<"NL">>]) :
                recs \in [1..n -> RecordKinds]} : n \in 0..MaxRecords}

CutSets(body) ==
    {c \in SUBSET (1..(Len(body) - 1)) : Cardinality(c) <= MaxCuts}

\* the body cut after each position of cuts
RECURSIVE Chunked(_, _, _, _)
Chunked(body, cuts, i, cur) ==
    IF i > Len(body)
    THEN IF cur = <<>> THEN <<>> ELSE <<cur>>
    ELSE IF i \in cuts
         THEN <<Append(cur, body[i])>> \o Chunked(body, cuts, i + 1, <<>>)
         ELSE Chunked(body, cuts, i + 1, Append(cur, body[i]))

\* chunk.split('\n'): n line feeds give n + 1 lines, empty ones included
RECURSIVE SplitLines(_, _)
SplitLines(text, cur) ==
    IF text = <<>> THEN <<cur>>
    ELSE IF Head(text) = "NL"
         THEN <<cur>> \o SplitLines(Tail(text), <<>>)
         ELSE SplitLines(Tail(text), Append(cur, Head(text)))

\* line.startsWith('data: ')
StartsWithData(line) == Len(line) > 0 /\ line[1] = "P"

\* JSON.parse(line.slice(6)) returns an event
Parses(data) == Len(data) = 1 /\ data[1] \in EventTokens

\* the for loop over the lines of a chunk: a line with the prefix is parsed
\* and handed to onEvent; when the parse raises, the catch logs and the loop
\* goes on
RECURSIVE ParseLines(_, _)
ParseLines(lines, acc) ==
    IF lines = <<>> THEN acc
    ELSE LET line == Head(lines) IN
         IF StartsWithData(line) /\ Parses(Tail(line))
         THEN ParseLines(Tail(lines), Append(acc, line[2]))
         ELSE ParseLines(Tail(lines), acc)

\* reader.read() returns the next chunk
ReadChunk ==
    /\ reading
    /\ nread < Len(chunks)
    /\ delivered' = ParseLines(SplitLines(chunks[nread + 1], <<>>), delivered)
    /\ nread' = nread + 1
    /\ UNCHANGED <<chunks, reading>>
    /\ UNCHANGED <<rvars, cvars>>
    /\ UNCHANGED lvars
    /\ UNCHANGED hvars

\* reader.read() returns done: the loop ends and the call returns
ReadDone ==
    /\ reading
    /\ nread = Len(chunks)
    /\ reading' = FALSE
    /\ UNCHANGED <<chunks, nread, delivered>>
    /\ UNCHANGED <<rvars, cvars>>
    /\ UNCHANGED lvars
    /\ UNCHANGED hvars

TInit ==
    /\ chunks \in UNION {{Chunked(b, c, 1, <<>>) : c \in CutSets(b)} : b \in Bodies}
    /\ nread = 0
    /\ delivered = <<>>
    /\ reading = TRUE

TNext == ReadChunk \/ ReadDone

InitTransport == TInit /\ RIdle /\ LIdle /\ HIdle /\ CInit /\ settings = FALSE

SpecTransport == InitTransport /\ [][TNext]_vars

----------------------------------------------------------------------------
\* The busy flags until the streams end (SpecBusy): the send-message and the
\* confirm-briefing operations, with the ways the read loop can end, under
\* the assumption that a request is answered and a stream ends.

\* reader.read() returns done before a terminal event was delivered: the read
\* loop ends, sendMessageStream resolves and handleSendMessage returns from
\* its try block; no state is set
SendClose ==
    /\ ~crashed
    /\ send.st = "open"
    /\ send' = IdleOp
    /\ UNCHANGED <<appvars, chatvars, council, answer, loads, crashed, srvvars>>
    /\ UNCHANGED rvars
    /\ UNCHANGED select
    /\ UNCHANGED tvars
    /\ EditorKept
    /\ UNCHANGED lvars
    /\ UNCHANGED hvars

\* the same for confirmClarificationBriefing and proceedToCouncil
CouncilClose ==
    /\ ~crashed
    /\ council.st = "open"
    /\ council' = IdleOp
    /\ UNCHANGED <<appvars, chatvars, send, answer, loads, crashed, srvvars>>
    /\ UNCHANGED rvars
    /\ UNCHANGED select
    /\ UNCHANGED tvars
    /\ EditorKept
    /\ UNCHANGED lvars
    /\ UNCHANGED hvars

\* what the collaborator and the transport do
StreamStep ==
    \/ SendAccept
    \/ SendEvent
    \/ SendError
    \/ SendFail
    \/ SendClose
    \/ CouncilAccept
    \/ CouncilEvent
    \/ CouncilError
    \/ CouncilFail
    \/ CouncilClose
    \/ LoadResponse

NextBusy ==
    \/ SendMessage
    \/ SendAccept
    \/ SendEvent
    \/ SendError
    \/ SendFail
    \/ SendClose
    \/ SelectConversation
    \/ LoadResponse
    \/ ConfirmBriefing
    \/ CouncilAccept
    \/ CouncilEvent
    \/ CouncilError
    \/ CouncilFail
    \/ CouncilClose

SpecBusy == Init /\ [][NextBusy]_vars /\ WF_vars(StreamStep)

----------------------------------------------------------------------------
\* The documents as React holds them (SpecSnapshots): a document is an object
\* whose messages array holds references to message objects. Every state
\* updater returns a new document with a new array; what it does with the
\* message objects is what the source does with them.

\* the message objects one document may reach
MaxObjects == 2

\* the documents published in one behaviour
MaxSnapshots == 3

\* the documents the presentation layer renders while the objects are objs
Deref(ids, objs) == [i \in 1..Len(ids) |-> objs[ids[i]]]

\* React renders the document an updater returned: the array and, through it,
\* the message objects as they are at that moment
Publish(ids, objs) ==
    published' = Append(published, [ids |-> ids, seen |-> Deref(ids, objs)])

\* the document value the updaters see
HDocument ==
    [NoConv EXCEPT !.id = 1, !.messages = Deref(hmessages, objects)]

\* the stage events of a stream
HStageEvents ==
    {Ev(t, 0, 0) : t \in StageStartTypes}
    \cup {Ev(t, p, p) : t \in StageCompleteTypes, p \in Payloads}

\* handleSendMessage and proceedToCouncil append a message:
\* messages: [...prev.messages, message] with a message object just created
HAppend ==
    /\ Len(objects) < MaxObjects
    /\ Len(published) < MaxSnapshots
    /\ \E m \in {UserMessage(1), AssistantPlaceholder, CouncilPlaceholder} :
          objects' = Append(objects, m)
    /\ hmessages' = Append(hmessages, Len(objects) + 1)
    /\ Publish(hmessages', objects')
    /\ UNCHANGED <<rvars, tvars, lvars, cvars>>

\* a stage case of either switch: const messages = [...prev.messages] copies
\* the array, lastMsg is the object the previous document holds, and the
\* assignments to lastMsg.stageN and lastMsg.loading.stageN write into it
HStage ==
    /\ Len(published) < MaxSnapshots
    /\ ~StageThrows(HDocument)
    /\ \E ev \in HStageEvents :
          objects' = [objects EXCEPT ![Last(hmessages)] =
                          Last(ApplyStage(HDocument, ev).messages)]
    /\ UNCHANGED hmessages
    /\ Publish(hmessages, objects')
    /\ UNCHANGED <<rvars, tvars, lvars, cvars>>

\* the clarification_question case: the copied array is popped when its last
\* message is an empty assistant placeholder; no message object is written
HClarificationQuestion ==
    /\ Len(published) < MaxSnapshots
    /\ LET popped == ApplyClarificationQuestion(
                          HDocument, Ev("clarification_question", 1, 0)).messages
       IN hmessages' = SubSeq(hmessages, 1, Len(popped))
    /\ UNCHANGED objects
    /\ Publish(hmessages', objects)
    /\ UNCHANGED <<rvars, tvars, lvars, cvars>>

\* the catch block of handleSendMessage: prev.messages.slice(0, -2)
HRollback ==
    /\ Len(published) < MaxSnapshots
    /\ hmessages' = Rollback([HDocument EXCEPT !.messages = hmessages]).messages
    /\ UNCHANGED objects
    /\ Publish(hmessages', objects)
    /\ UNCHANGED <<rvars, tvars, lvars, cvars>>

HNext == HAppend \/ HStage \/ HClarificationQuestion \/ HRollback

InitSnapshots == HIdle /\ RIdle /\ TIdle /\ LIdle /\ CInit /\ settings = FALSE

SpecSnapshots == InitSnapshots /\ [][HNext]_vars

----------------------------------------------------------------------------
\* Properties of the event handlers (checked under SpecReducer).

\* the stage field a stageN_complete event writes
StageOf(m, t) ==
    CASE t = "stage1_complete" -> m.stage1
      [] t = "stage2_complete" -> m.stage2
      [] t = "stage3_complete" -> m.stage3

\* the stage fields and the metadata of a message
StageFields(m) == <<m.stage1, m.stage2, m.stage3, m.metadata>>

\* a stageN_complete event has just been applied
StageCompleteApplied == rn >= 1 /\ rev.type \in StageCompleteTypes

\* C2 as the specification states it: a stageN_complete event that arrives
\* when stageN of the last message is already present is ignored, the field
\* keeps its first value. The handlers refute it.
C2_DuplicateIgnored ==
    (StageCompleteApplied /\ StageOf(Last(rprev.messages), rev.type) # 0)
        => StageFields(Last(rdoc.messages)) = StageFields(Last(rprev.messages))

\* C2, corrected: a stageN_complete event always stores its payload in stageN
\* of the last message (and its metadata for N = 2), whether or not the field
\* was present: the last delivery wins. The other stage fields are left as
\* they were, and no stage event makes a present field absent.
C2_LastDeliveryWins ==
    /\ StageCompleteApplied =>
        LET old == Last(rprev.messages)
            new == Last(rdoc.messages)
        IN /\ StageOf(new, rev.type) = rev.data
           /\ rev.type = "stage2_complete" => new.metadata = rev.metadata
           /\ rev.type # "stage1_complete" => new.stage1 = old.stage1
           /\ rev.type # "stage2_complete" =>
                 new.stage2 = old.stage2 /\ new.metadata = old.metadata
           /\ rev.type # "stage3_complete" => new.stage3 = old.stage3
           /\ \A i \in 1..4 : StageFields(old)[i] # 0 => StageFields(new)[i] # 0
    /\ (rn >= 1 /\ rev.type \in StageStartTypes) =>
          StageFields(Last(rdoc.messages)) = StageFields(Last(rprev.messages))

\* a second delivery with another payload has overwritten a present stage1
C2_Witness ==
    /\ rn = 1
    /\ rev.type = "stage1_complete"
    /\ Last(rprev.messages).stage1 = 1
    /\ rev.data = 2
    /\ Last(rdoc.messages).stage1 = 2

\* C3: applying the same stageN_complete event twice in succession yields the
\* same document as applying it once (rprev is the document after the first
\* application, rdoc the document after the second).
C3_Idempotent ==
    (rn = 2 /\ rev.type \in StageCompleteTypes) => rdoc = rprev

\* the event changed the document the first time and not the second time
C3_Witness ==
    /\ rn = 2
    /\ rev.type = "stage2_complete"
    /\ Last(rorig.messages).role = "assistant"
    /\ rprev # rorig
    /\ rdoc = rprev

\* the last message is an assistant message with no stage1 set
EmptyAssistantLast(d) ==
    /\ Len(d.messages) > 0
    /\ Last(d.messages).role = "assistant"
    /\ Last(d.messages).stage1 = 0

\* C10: a clarification_question event handled by handleSendMessage removes
\* the last message if and only if it is an assistant message with no stage1
\* set; otherwise (a user message, an assistant message with stage1 present,
\* no message) the list is unchanged; never more than one message is removed.
C10_RemovesOnlyEmptyAssistant ==
    (rn >= 1 /\ rh = "send" /\ rev.type = "clarification_question") =>
        /\ EmptyAssistantLast(rprev) => rdoc.messages = Front(rprev.messages)
        /\ ~EmptyAssistantLast(rprev) => rdoc.messages = rprev.messages
        /\ Len(rdoc.messages) >= Len(rprev.messages) - 1

\* the event met an assistant message whose stage1 is present and kept it
C10_Witness ==
    /\ rn = 1
    /\ rh = "send"
    /\ rev.type = "clarification_question"
    /\ Len(rprev.messages) = 4
    /\ Last(rprev.messages).role = "assistant"
    /\ Last(rprev.messages).stage1 # 0
    /\ rdoc.messages = rprev.messages
    /\ rdoc.clarification_state.current_question = rev.data

----------------------------------------------------------------------------
\* Properties of the controller (checked under Spec).

\* the clarification state of the displayed document
CS == currentConversation.clarification_state

\* the last message of d carries the payloads of the *_complete events of the
\* script, the metadata of its stage2_complete, and no loading flag
WellFormedResult(d, script) ==
    /\ Len(d.messages) > 0
    /\ LET m == Last(d.messages) IN
        /\ m.role = "assistant"
        /\ m.stage1 = script[2].data
        /\ m.stage2 = script[4].data
        /\ m.metadata = script[4].metadata
        /\ m.stage3 = script[6].data
        /\ m.loading = NoLoading

\* the send-message handler receives the last event of a well-formed sequence
\* that was applied to the placeholder it appended
SendCompletes ==
    /\ send.st = "open"
    /\ send.mode = "council"
    /\ send.intact
    /\ send.k + 1 = Len(CouncilScript(send.p))
    /\ SendEvent

\* the same for the confirm-briefing handler
CouncilCompletes ==
    /\ council.st = "open"
    /\ council.intact
    /\ council.k + 1 = Len(CouncilScript(council.p))
    /\ CouncilEvent

\* C1: when the well-formed sequence stage1_start, stage1_complete,
\* stage2_start, stage2_complete, stage3_start, stage3_complete, complete has
\* been applied by either handler to the placeholder it appended, the last
\* message has stage1, stage2, stage3 equal to the payloads of the matching
\* *_complete events, metadata equal to the metadata of stage2_complete, and
\* all three loading flags false.
C1_WellFormedSequence ==
    [][ /\ SendCompletes =>
              WellFormedResult(currentConversation', CouncilScript(send.p))
        /\ CouncilCompletes =>
              WellFormedResult(currentConversation', CouncilScript(council.p))
      ]_vars

\* the first message of session 1 went through the whole sequence
C1_Witness ==
    /\ ~crashed
    /\ nops = 1
    /\ send.st = "idle"
    /\ ~isLoading
    /\ currentConversation.id = 1
    /\ WellFormedResult(currentConversation, CouncilScript(1))
    /\ Last(currentConversation.messages).hasLoading
    /\ server[1].messages = <<UserMessage(1), StoredAssistant(1)>>

\* the fields of a message the collaborator stores
Stored(m) == <<m.role, m.content, m.stage1, m.stage2, m.stage3, m.metadata>>

\* the displayed document carries what the collaborator holds for the
\* session: messages with their stage fields, clarification state,
\* model selection
SameDocument(local, remote) ==
    /\ local.id = remote.id
    /\ Len(local.messages) = Len(remote.messages)
    /\ \A i \in 1..Len(local.messages) :
          Stored(local.messages[i]) = Stored(remote.messages[i])
    /\ local.clarification_state = remote.clarification_state
    /\ local.model_selection = remote.model_selection

\* no call is outstanding
Quiet ==
    /\ ~crashed
    /\ send.st = "idle"
    /\ council.st = "idle"
    /\ answer.st = "idle"
    /\ loads = {}

\* C4 as the specification states it: when a send-message stream has
\* delivered `complete` and no call is outstanding, the displayed document
\* equals the document a load by its id would return, whatever the
\* interleaving was. The controller refutes it.
C4_ConvergesToReload ==
    [][ ( /\ send.st = "open"
          /\ send.k + 1 = Len(Script(send.mode, send.p))
          /\ SendEvent
          /\ Quiet'
          /\ currentConversation'.id # 0 )
        => SameDocument(currentConversation', server'[currentConversation'.id])
      ]_vars

\* the catch block of handleSendMessage runs for a send no other operation
\* interfered with
SendFailsAlone == Busy(send) /\ send.intact /\ SendFail

\* C5 as the specification states it: whenever a send fails before its stream
\* completes, also after a clarification_question removed the placeholder, the
\* rollback leaves the messages the list held before the send. The
\* controller refutes it.
C5_RollbackRestoresList ==
    [][ SendFailsAlone => currentConversation'.messages = send.pre ]_vars

\* C6: when the send fails before any event has arrived, the length of the
\* messages list returns to its value before the send, with a placeholder
\* (two messages appended) and without one (first message, clarification
\* enabled: one message appended).
C6_LengthRestoredBeforeEvents ==
    [][ (SendFailsAlone /\ send.k = 0) =>
            Len(currentConversation'.messages) = Len(send.pre) ]_vars

\* the first message, sent with clarification enabled and so without a
\* placeholder, was never accepted: the optimistic title is all that is left
C6_Witness ==
    /\ ~crashed
    /\ settings
    /\ nops = 1
    /\ send.st = "idle"
    /\ ~isLoading
    /\ currentConversation.id = 1
    /\ currentConversation.title = DraftTitle(1)
    /\ currentConversation.messages = <<>>
    /\ server[1].messages = <<>>

\* the send-message handler receives a clarification_question event
QuestionStep ==
    /\ send.st = "open"
    /\ Script(send.mode, send.p)[send.k + 1].type = "clarification_question"
    /\ SendEvent

C8_ConfirmedBeforeRequests ==
    [][ (council.st = "idle" /\ council'.st # "idle") =>
            /\ council'.st \in {"picking", "req"}
            /\ council'.k = 0
            /\ currentConversation'.clarification_state.confirmed
            /\ ~currentConversation'.clarification_state.active
      ]_vars

\* the confirm request is issued and the confirmation is on the document
C8_Witness ==
    /\ ~crashed
    /\ council.st = "req"
    /\ council.intact
    /\ CS.confirmed
    /\ ~CS.active
    /\ CS.briefing # 0
    /\ ~showClarificationUI

\* C9 as the specification states it: once the confirmation is recorded on
\* the document of a session, the clarification UI is not shown again for
\* that session, whatever later stream events or reloads do. The controller
\* refutes it.
C9_NeverShownAgain ==
    [][ (CS.confirmed /\ currentConversation'.id = currentConversation.id)
            => ~showClarificationUI' ]_vars

----------------------------------------------------------------------------
\* Clarification questions.

\* the payload of the clarification_question event of a stream
QuestionOf(p) == ClarifyScript(p)[2].data

\* C11: after the first message of a session was sent with clarification
\* enabled (no placeholder appended) and the clarification_question event with
\* payload q has been applied, the document holds exactly the user message,
\* clarification_state.active is true and current_question equals q.
C11_FirstQuestion ==
    [][ (QuestionStep /\ settings /\ send.intact /\ send.pre = <<>>) =>
            /\ currentConversation'.messages = <<UserMessage(send.content)>>
            /\ currentConversation'.clarification_state.active
            /\ currentConversation'.clarification_state.current_question
                  = QuestionOf(send.p)
            /\ showClarificationUI'
      ]_vars

\* the question of the first message of session 1 has been applied
C11_Witness ==
    /\ ~crashed
    /\ settings
    /\ send.st = "open"
    /\ send.mode = "clarify"
    /\ send.k = 2
    /\ send.intact
    /\ currentConversation.messages = <<UserMessage(1)>>
    /\ CS.active
    /\ CS.current_question = QuestionOf(1)
    /\ showClarificationUI

\* a clarification_question event has just been applied by handleSendMessage
QuestionApplied == rn >= 1 /\ rh = "send" /\ rev.type = "clarification_question"

----------------------------------------------------------------------------
\* Context and role snapshots.

\* the snapshots of a document
Snapshots(d) == <<d.context_snapshot, d.role_snapshot>>

\* C13 as the specification states it: once the document of a session has at
\* least one message, no select-context or select-role operation and no late
\* response to one issued earlier changes its context_snapshot or its
\* role_snapshot. The controller refutes it.
C13_SnapshotsWriteOnce ==
    [][ ( /\ currentConversation.id # 0
          /\ Len(currentConversation.messages) > 0
          /\ currentConversation'.id = currentConversation.id )
        => Snapshots(currentConversation') = Snapshots(currentConversation)
      ]_vars

----------------------------------------------------------------------------
\* Streams in flight.

\* C14 as the specification states it: at no time are two streams in flight
\* for the same session; while a stream of the session has not ended the
\* controller starts no second one. The controller refutes it.
C14_OneStreamPerSession ==
    ~(Busy(send) /\ Busy(council) /\ send.sid = council.sid)

----------------------------------------------------------------------------
\* Optimistic append of a send.

\* the messages handleSendMessage is to append to a document holding pre
SendAppended(pre, content) ==
    IF pre = <<>> /\ settings
    THEN <<[role |-> "user", content |-> content, stage1 |-> 0, stage2 |-> 0,
            stage3 |-> 0, metadata |-> 0, hasLoading |-> FALSE,
            loading |-> [stage1 |-> FALSE, stage2 |-> FALSE, stage3 |-> FALSE]]>>
    ELSE <<[role |-> "user", content |-> content, stage1 |-> 0, stage2 |-> 0,
            stage3 |-> 0, metadata |-> 0, hasLoading |-> FALSE,
            loading |-> [stage1 |-> FALSE, stage2 |-> FALSE, stage3 |-> FALSE]],
           [role |-> "assistant", content |-> 0, stage1 |-> 0, stage2 |-> 0,
            stage3 |-> 0, metadata |-> 0, hasLoading |-> TRUE,
            loading |-> [stage1 |-> FALSE, stage2 |-> FALSE, stage3 |-> FALSE]]>>

\* C17: a send appends the user message and then a placeholder assistant
\* message (stage1, stage2, stage3 and metadata absent, the three loading
\* flags false), unless the document had no message before the send and
\* clarification is enabled: then only the user message is appended. Stated
\* on the document between the send and the next operation that touches it.
C17_SendAppends ==
    (~crashed /\ send.st = "req" /\ send.intact) =>
        currentConversation.messages
            = send.pre \o SendAppended(send.pre, send.content)

\* a second message was sent with clarification enabled: the placeholder is
\* there although clarification is enabled
C17_Witness ==
    /\ ~crashed
    /\ settings
    /\ send.st = "req"
    /\ send.intact
    /\ send.pre # <<>>
    /\ Len(currentConversation.messages) = Len(send.pre) + 2
    /\ Last(currentConversation.messages).role = "assistant"
    /\ Last(currentConversation.messages).loading.stage1 = FALSE

----------------------------------------------------------------------------
\* Terminal events.

\* C18: an `error` event, in either stream, leaves the document (messages,
\* stage fields, metadata, loading flags, clarification state) exactly as it
\* was when the event arrived: nothing is rolled back; only the busy flag of
\* the stream is cleared.
C18_ErrorKeepsDocument ==
    [][ (SendError \/ CouncilError) =>
            /\ currentConversation' = currentConversation
            /\ showClarificationUI' = showClarificationUI
            /\ server' = server
            /\ (SendError =>
                    ~isLoading' /\ clarificationLoading' = clarificationLoading)
            /\ (CouncilError =>
                    ~clarificationLoading' /\ isLoading' = isLoading)
      ]_vars

\* the send-message stream of session 1 ended with `error` after stage1_start:
\* the optimistic messages are still there and the stage1 flag is still raised
C18_Witness ==
    /\ ~crashed
    /\ ~settings
    /\ ~Busy(send)
    /\ ~Busy(council)
    /\ ~isLoading
    /\ currentConversation.id = 1
    /\ Len(currentConversation.messages) = 2
    /\ currentConversation.messages[1].role = "user"
    /\ currentConversation.messages[2].role = "assistant"
    /\ currentConversation.messages[2].stage1 = 0
    /\ currentConversation.messages[2].loading.stage1
    /\ ~CS.present

\* the step that handles the `complete` event of a stream
SendCompleteStep ==
    /\ SendEvent
    /\ Script(send.mode, send.p)[send.k + 1].type = "complete"

CouncilCompleteStep ==
    /\ CouncilEvent
    /\ CouncilScript(council.p)[council.k + 1].type = "complete"

\* C19 as the specification states it: a `complete` event, in the send-message
\* stream and in the confirm-briefing stream alike, does not change the
\* messages of the document, and beyond the refresh of the conversation list
\* it only clears the busy flag: no other change of the document is made or
\* requested. The confirm-briefing stream refutes it.
C19_CompleteOnlyClearsBusy ==
    [][ (SendCompleteStep \/ CouncilCompleteStep) =>
            /\ currentConversation' = currentConversation
            /\ showClarificationUI' = showClarificationUI
            /\ loads' = loads
      ]_vars

----------------------------------------------------------------------------
\* History of answers.

History == currentConversation.clarification_state.history

----------------------------------------------------------------------------
\* Shape of the clarification state.

\* C21 as the specification states it: after the reply to an answer was
\* recorded on a document, current_question is present if and only if active
\* is true; when the reply is a briefing the document no longer carries a
\* pending question. The controller refutes it.
C21_QuestionIffActive ==
    [][ AnswerResult =>
            (currentConversation'.clarification_state.current_question # 0
                <=> currentConversation'.clarification_state.active)
      ]_vars

\* the state SpecAnswer starts from, but for the count of operations
AnswerLoopStart ==
    /\ currentConversationId = 1
    /\ currentConversation = QuestionedConversation
    /\ ~isLoading
    /\ settings
    /\ showClarificationUI
    /\ ~clarificationLoading
    /\ ~dynamicPicking
    /\ modelSelection = NoSelection
    /\ ~showModelEvaluation
    /\ send = IdleOp
    /\ council = IdleOp
    /\ answer.st = "idle"
    /\ loads = {}
    /\ ~crashed
    /\ select = IdleSelect
    /\ server = QuestionedServer

\* C22 as the specification states it: whenever clarification_state.briefing
\* is set, clarification_state.active is false. The answer loop refutes it.
C22_BriefingMeansInactive ==
    (CS.present /\ CS.briefing # 0) => ~CS.active

----------------------------------------------------------------------------
\* Lock of the model-picking override.

\* C23 as the specification states it: while the document of a session has at
\* least one message, the model-picking override does not change, unless the
\* step also empties the messages (cancel-and-restart). The models editor
\* refutes it.
C23_OverrideLocked ==
    [][ (Len(currentConversation.messages) > 0
            /\ currentConversation'.id = currentConversation.id
            /\ dynamicPicking' # dynamicPicking)
          => Len(currentConversation'.messages) = 0 ]_vars

\* C24: cancelling from the evaluation-result state resets the model-picking
\* override to default, discards the evaluation result, empties the messages
\* of the document, and starts no stream.
C24_CancelResets ==
    [][ CancelModelEvaluation =>
            /\ ~dynamicPicking'
            /\ modelSelection' = NoSelection
            /\ ~showModelEvaluation'
            /\ currentConversation'.messages = <<>>
            /\ ~Busy(council')
            /\ (Busy(send') => Busy(send))
            /\ ~clarificationLoading' \/ clarificationLoading
            /\ server' = server
      ]_vars

\* the evaluation of session 2 was cancelled: its document is empty while the
\* collaborator still holds its message
C24_Witness ==
    /\ ~crashed
    /\ currentConversation.id = 2
    /\ currentConversation.messages = <<>>
    /\ server[2].messages # <<>>
    /\ ~dynamicPicking
    /\ modelSelection = NoSelection
    /\ ~showModelEvaluation
    /\ council = IdleOp

----------------------------------------------------------------------------
\* Model selection.

KeysWithinModels(sel) == sel.present => sel.rationales \subseteq sel.models

----------------------------------------------------------------------------
\* Messages are appended.

\* the messages of old are the first messages of new (a message is the same
\* message when its role and content are the same; stage fields may be filled)
KeepsMessages(old, new) ==
    /\ Len(old) <= Len(new)
    /\ \A i \in 1..Len(old) :
          /\ new[i].role = old[i].role
          /\ new[i].content = old[i].content

\* C26 as the specification states it: within a session, every transition
\* leaves the previous messages as a prefix of the new ones, except the
\* rollback of a failed send, the removal of an empty placeholder by
\* clarification_question, and cancel-and-restart; in particular no response
\* of a request issued before a send drops the messages the send appended.
\* The controller refutes it.
C26_MessagesKept ==
    [][ (currentConversation'.id = currentConversation.id
            /\ ~KeepsMessages(currentConversation.messages,
                              currentConversation'.messages))
          => (SendFail \/ QuestionStep \/ CancelModelEvaluation) ]_vars

----------------------------------------------------------------------------
\* Failed collaborator calls.

\* C27 as the specification states it: when create-session, update-context,
\* update-role or delete-session fails, the operation has changed no local
\* state (conversation list, active session id, active document, selected
\* context, selected role), neither before the call nor after it: the local
\* state is what it was when the handler was invoked. The update handlers
\* refute it.
C27_FailureChangesNothing ==
    [][ (CreateFail \/ UpdateFail \/ DeleteFail) =>
            <<conversations', currentConversationId', currentConversation',
              selectedContext', selectedRole'>> = call.before ]_vars

----------------------------------------------------------------------------
\* Placeholder and rollback of the confirm-briefing stream.

\* proceedToCouncil has just appended its placeholder and requested the stream
CouncilRequested == council.st # "req" /\ council'.st = "req"

\* C28 as the specification states it: the placeholder appended for the
\* confirm-briefing stream has its stage fields absent and its three loading
\* flags false, and when the stream fails before completion the placeholder is
\* removed, so that messages equal their value before the stream began. The
\* controller refutes both parts.
C28_SameDiscipline ==
    [][ /\ CouncilRequested =>
              LET m == Last(currentConversation'.messages) IN
              /\ m.role = "assistant"
              /\ m.stage1 = 0 /\ m.stage2 = 0 /\ m.stage3 = 0
              /\ m.loading = [stage1 |-> FALSE, stage2 |-> FALSE,
                              stage3 |-> FALSE]
        /\ (CouncilFail /\ council.intact) =>
              currentConversation'.messages = council.pre
      ]_vars

----------------------------------------------------------------------------
\* The two handlers compared (checked under SpecReducer).

\* an event has been applied once to the document rprev
AppliedOnce == rn = 1

\* C29 as the specification states it: for every event kind and every
\* document, the confirm-briefing handler and the send-message handler make
\* the same document change. The confirm-briefing handler has no case for
\* title_complete and none for clarification_question, so it leaves the
\* document unchanged where the send-message handler sets the title or
\* replaces the clarification state.
C29_HandlersAgree ==
    AppliedOnce =>
        /\ rdoc = ApplySend(rprev, rev)
        /\ rdoc = ApplyConfirm(rprev, rev)

----------------------------------------------------------------------------
\* State of the previous session (checked under Spec).

\* the displayed document is replaced by the document of another session
SessionChanges ==
    /\ currentConversation.id # 0
    /\ currentConversation'.id # 0
    /\ currentConversation'.id # currentConversation.id

\* the override chosen for the previous session is dropped on the change
OverrideDropped == [][SessionChanges => ~dynamicPicking']_vars

\* the evaluation stage of the previous session is left on the change
EvaluationDropped ==
    [][SessionChanges =>
          (~showModelEvaluation' /\ modelSelection' = NoSelection)]_vars

\* C30: when the active session changes, no state of the previous session
\* carries over: the model-picking override, the evaluation result and the
\* evaluation-stage flag are reset on the step that displays the other
\* session, also when that session already has messages, so that a briefing
\* confirmed there cannot use them. The reset effect keeps the override when
\* the new document has messages, and nothing resets the evaluation state.
C30_NothingCarriesOver ==
    [][SessionChanges =>
          /\ ~dynamicPicking'
          /\ ~showModelEvaluation'
          /\ modelSelection' = NoSelection]_vars

\* a briefing of another session is confirmed with the override of the
\* previous one: never, if nothing carried over
OverrideUsedElsewhere ==
    [][(SessionChanges /\ dynamicPicking')
          => ClarificationKind(currentConversation') # "briefing"]_vars

----------------------------------------------------------------------------
\* Streams and the displayed document (checked under Spec).

\* an event of the send-message stream changes the displayed document
SendEventChanges == SendEvent /\ currentConversation' # currentConversation

\* an event of the confirm-briefing stream changes the displayed document
CouncilEventChanges == CouncilEvent /\ currentConversation' # currentConversation

\* C31: events of a stream started for session S change only the document of
\* session S: once another session's document (or no document) is displayed,
\* the remaining events of the stream are not applied to it. Both handlers
\* pass an updater to setCurrentConversation, which receives whatever
\* document is displayed when the event arrives.
C31_EventsStayInSession ==
    [][/\ SendEventChanges => currentConversation.id = send.sid
       /\ CouncilEventChanges => currentConversation.id = council.sid]_vars

\* the send-message part of C31 alone
SendEventsStayInSession ==
    [][SendEventChanges => currentConversation.id = send.sid]_vars

\* the confirm-briefing part of C31 alone
CouncilEventsStayInSession ==
    [][CouncilEventChanges => currentConversation.id = council.sid]_vars

----------------------------------------------------------------------------
\* The target of the stage events (checked under Spec).

\* the document is present and its last message is an assistant message
AssistantLast(d) ==
    /\ d.id # 0
    /\ Len(d.messages) > 0
    /\ Last(d.messages).role = "assistant"

\* the next event of the send-message stream is a stage event
SendStageNext ==
    /\ send.st = "open"
    /\ Script(send.mode, send.p)[send.k + 1].type \in StageTypes

\* the next event of the confirm-briefing stream is a stage event
CouncilStageNext ==
    /\ council.st = "open"
    /\ CouncilScript(council.p)[council.k + 1].type \in StageTypes

\* C32: whenever a stageN_start or stageN_complete event is applied, in
\* either stream, the document is present, its messages list is non-empty and
\* its last message is an assistant message. The handlers take the last
\* message of the displayed document without looking at it: a council stream
\* answering a first message sent without placeholder, or an event arriving
\* after the displayed document was replaced or emptied, finds a user message
\* or no message there.
C32_StageFindsAssistant ==
    [][/\ (SendStageNext /\ SendEvent) => AssistantLast(currentConversation)
       /\ (CouncilStageNext /\ CouncilEvent) => AssistantLast(currentConversation)]_vars

\* the confirm-briefing part of C32 alone
CouncilStageFindsAssistant ==
    [][(CouncilStageNext /\ CouncilEvent) => AssistantLast(currentConversation)]_vars

----------------------------------------------------------------------------
\* The loading flags (checked under Spec).

\* loading.stageN and stageN of a message
LoadingFlag(m, n) ==
    CASE n = 1 -> m.loading.stage1 [] n = 2 -> m.loading.stage2
      [] n = 3 -> m.loading.stage3

StageField(m, n) ==
    CASE n = 1 -> m.stage1 [] n = 2 -> m.stage2 [] n = 3 -> m.stage3

\* stage n of a council stream of the displayed session is in flight:
\* stageN_start (event 2n - 1 of the stream) is the last event applied
InFlight(op, n) ==
    /\ op.st = "open"
    /\ op.mode = "council"
    /\ op.sid = currentConversation.id
    /\ op.k = 2 * n - 1

\* a stream for the displayed session is active
StreamActive(op) == Busy(op) /\ op.sid = currentConversation.id

\* no message has loading.stageN true together with stageN present
NoFlagWithResult ==
    \A i \in 1..Len(currentConversation.messages) : \A n \in 1..3 :
        LET m == currentConversation.messages[i]
        IN LoadingFlag(m, n) => StageField(m, n) = 0

\* no message keeps a true loading flag after its stream has ended
NoFlagAfterStream ==
    \A i \in 1..Len(currentConversation.messages) : \A n \in 1..3 :
        LoadingFlag(currentConversation.messages[i], n)
            => (StreamActive(send) \/ StreamActive(council))

\* C33: in every reachable state, loading.stageN of a message is true only
\* while stage N is in flight: a stream for the session is active,
\* stageN_start has been applied and stageN is still absent. The placeholder
\* of proceedToCouncil has loading.stage1 true before any event, and the
\* error case and the catch block of both streams end the stream without
\* touching the flags.
C33_LoadingOnlyInFlight ==
    \A i \in 1..Len(currentConversation.messages) : \A n \in 1..3 :
        LET m == currentConversation.messages[i]
        IN LoadingFlag(m, n) =>
              /\ StageField(m, n) = 0
              /\ InFlight(send, n) \/ InFlight(council, n)

----------------------------------------------------------------------------
\* The stageN_start events (checked under SpecReducer).

\* the stage a stageN_start event announces
StartNumber(t) ==
    CASE t = "stage1_start" -> 1 [] t = "stage2_start" -> 2
      [] t = "stage3_start" -> 3

\* a stageN_start event has been applied to rprev, giving rdoc
StartApplied == rn >= 1 /\ rev.type \in StageStartTypes

\* a message without its loading flags
WithoutLoading(m) == [m EXCEPT !.loading = NoLoading]

\* C34: a stageN_start event sets loading.stageN of the last message to true
\* and changes nothing else in the document (the other fields of the
\* document, the earlier messages, the stage fields and the other flags of
\* the last message); applied when the flag is already true it leaves the
\* document as it is, so the second application gives the document of the
\* first.
C34_StartRaisesFlagOnly ==
    StartApplied =>
        LET n == StartNumber(rev.type)
            old == Last(rprev.messages)
            new == Last(rdoc.messages)
        IN /\ LoadingFlag(new, n)
           /\ \A k \in (1..3) \ {n} : LoadingFlag(new, k) = LoadingFlag(old, k)
           /\ WithoutLoading(new) = WithoutLoading(old)
           /\ Len(rdoc.messages) = Len(rprev.messages)
           /\ Front(rdoc.messages) = Front(rprev.messages)
           /\ [rdoc EXCEPT !.messages = <<>>] = [rprev EXCEPT !.messages = <<>>]
           /\ LoadingFlag(old, n) => rdoc = rprev
           /\ rn = 2 => rdoc = rprev

\* stage2_start raised the flag the first time and changed nothing the
\* second time
C34_Witness ==
    /\ rn = 2
    /\ rev.type = "stage2_start"
    /\ ~Last(rorig.messages).loading.stage2
    /\ Last(rprev.messages).loading.stage2
    /\ rprev # rorig
    /\ rdoc = rprev

----------------------------------------------------------------------------
\* Published documents (checked under SpecSnapshots).

\* C35: a document that was published to the presentation layer is never
\* changed by a later transition: the message objects reachable from every
\* earlier snapshot are as they were when it was published. The stage cases
\* copy the array but not the last message, and write the stage field, the
\* metadata and the loading flag into the object the previous document holds.
C35_SnapshotsUnchanged ==
    \A i \in 1..Len(published) :
        Deref(published[i].ids, objects) = published[i].seen

----------------------------------------------------------------------------
\* The displayed document and the active session (checked under Spec).

\* the displayed document is the document of the active session
DocumentOfActiveSession == currentConversation.id = currentConversationId

\* a load response never displays the document of a session that is not the
\* active one
NoStaleResponse == [][LoadResponse => DocumentOfActiveSession']_vars

\* C36: whenever no load request is outstanding, the id of the active
\* document equals the active session id: the response to a load issued for
\* an earlier selection, arriving last, does not stay the active document.
\* loadConversation stores whatever response arrives, without comparing its
\* id with currentConversationId, and its catch only logs.
C36_ActiveDocumentMatches == loads = {} => DocumentOfActiveSession

----------------------------------------------------------------------------
\* The busy flags (checked under SpecBusy).

\* every send-message operation eventually leaves isLoading false
SendLeavesIdle == isLoading ~> ~isLoading

\* every confirm-briefing operation eventually leaves clarificationLoading
\* false
CouncilLeavesIdle == clarificationLoading ~> ~clarificationLoading

\* C37: every send-message operation whose stream ends, with `complete`, with
\* `error`, by a clean close without any terminal event, or by a failure,
\* eventually leaves isLoading false; likewise clarificationLoading after a
\* confirm-briefing stream ends. The flags are lowered in the complete and
\* error cases, by clarification_question and in the catch blocks; when the
\* read loop ends without a terminal event the handlers return without
\* lowering them.
C37_BusyFlagsLowered == SendLeavesIdle /\ CouncilLeavesIdle

----------------------------------------------------------------------------
\* The evaluation stage (checked under Spec).

\* the confirm-briefing stream is requested on this step
CouncilStarts == ~Busy(council) /\ Busy(council')

\* a message is appended to the displayed document on this step
MessageAppended ==
    Len(currentConversation'.messages) > Len(currentConversation.messages)

C40_PickFailureFallsThrough ==
    [][PickFail =>
          /\ currentConversation'.clarification_state
                = currentConversation.clarification_state
          /\ currentConversation'.model_selection
                = currentConversation.model_selection
          /\ modelSelection' = modelSelection
          /\ showModelEvaluation' = showModelEvaluation
          /\ server' = server
          /\ council'.st = "req"
          /\ clarificationLoading'
          /\ currentConversation'.messages
                = Append(currentConversation.messages, CouncilPlaceholder)
      ]_vars

\* the stream was requested after a failed pick: the override is configured,
\* the briefing is confirmed, and there is no selection anywhere
C40_Witness ==
    /\ ~crashed
    /\ dynamicPicking
    /\ council.st = "req"
    /\ modelSelection = NoSelection
    /\ ~showModelEvaluation
    /\ currentConversation.clarification_state.confirmed
    /\ ~currentConversation.model_selection.present
    /\ ~server[council.sid].model_selection.present
    /\ Last(currentConversation.messages) = CouncilPlaceholder

----------------------------------------------------------------------------
\* Properties of the read loop (checked under SpecTransport).

\* the lines of the whole response body, whatever the chunks it came in
BodyLines == SplitLines(Flatten(chunks), <<>>)

\* the events of the well-formed `data: ` records among lines, in order
WellFormedRecords(lines) == ParseLines(lines, <<>>)

\* C15: when the stream has ended, the events handed to the handler are the
\* well-formed `data: ` records of the response body, each exactly once and
\* in the order of the body: none is reordered, merged or skipped.
C15_RecordsInBodyOrder ==
    (~reading /\ chunks # <<>>) => delivered = WellFormedRecords(BodyLines)

\* a `data: ` record whose payload cannot be parsed
Malformed(line) == StartsWithData(line) /\ ~Parses(Tail(line))

IsSuffix(t, u) ==
    /\ Len(t) <= Len(u)
    /\ SubSeq(u, Len(u) - Len(t) + 1, Len(u)) = t

\* C16: a record of the body whose payload cannot be parsed is dropped
\* without ending the stream: when the stream has ended, every well-formed
\* record that follows it in the body has been delivered, in order.
C16_MalformedDroppedRestDelivered ==
    (~reading /\ chunks # <<>>) =>
        \A i \in 1..Len(BodyLines) :
            Malformed(BodyLines[i]) =>
                IsSuffix(WellFormedRecords(SubSeq(BodyLines, i + 1, Len(BodyLines))),
                         delivered)

\* what the read loop delivers when the transport hands the body over as one
\* chunk
DecodeWhole(body) == ParseLines(SplitLines(body, <<>>), <<>>)

IsPrefix(t, u) == Len(t) <= Len(u) /\ SubSeq(u, 1, Len(t)) = t

\* C38: the sequence of events delivered depends only on the bytes of the
\* response body, not on how the transport splits them into chunks: at any
\* moment the events delivered are a prefix of those of the body read as one
\* chunk, and when the stream has ended they are the same, so that a
\* well-formed record that straddles two chunks is delivered exactly once.
C38_ChunkingIrrelevant ==
    /\ IsPrefix(delivered, DecodeWhole(Flatten(chunks)))
    /\ ~reading => delivered = DecodeWhole(Flatten(chunks))

====
